---------------------------- MODULE Spec2Model ----------------------------
(***************************************************************************)
(* Product placement composition pipeline of smart-design.                 *)
(*                                                                         *)
(*   - generateSmartPosition (App, multi-item version): the randomized,    *)
(*     bounded collision-avoiding placement search and its fallback.       *)
(*   - resizeImage / cropToOriginalAspectRatio (geminiService): the pad    *)
(*     and crop geometry.                                                  *)
(*   - generateCompositeImage and the App's handleApplyProducts, in the    *)
(*     single-item and the multi-item version of the App, with the UI      *)
(*     handlers that can run while a composition is in flight.             *)
(*                                                                         *)
(* One set of variables, several specifications: each specification        *)
(* exercises one part and leaves the variables of the other parts alone.   *)
(***************************************************************************)
EXTENDS Integers, Sequences, FiniteSets, TLC

VARIABLES
    \* ---- generateSmartPosition and its caller's placedPositions
    placedPositions,   \* list of [xPercent, yPercent, type]
    pcPlace,           \* "idle" | "loop" | "returnedLoop" | "returnedFallback"
    isTile,            \* argument of the call in progress
    attempt,           \* loop variable of the call in progress
    draws,             \* randomized attempts performed by the call in progress
    position,          \* value returned by the call in progress
    placedVia,         \* per entry of placedPositions: "loop" | "fallback"
    \* ---- resizeImage / cropToOriginalAspectRatio on the scene image
    imgWidth,          \* intrinsic width of the scene image
    imgHeight,         \* intrinsic height of the scene image
    targetDimension,   \* side of the square canvas
    pcGeo,             \* "source" | "measured" | "productResized" | "normalized"
                       \* | "generated" | "restored"
    originalWidth,     \* width read by getImageDimensions
    originalHeight,    \* height read by getImageDimensions
    drawn,             \* rectangle at which resizeImage drew the scene
    cropped,           \* rectangle cropToOriginalAspectRatio extracted
    outWidth,          \* canvas.width of the cropped image
    outHeight,         \* canvas.height of the cropped image
    geoItems,          \* items composited into the scene so far
    productWidth,      \* intrinsic width of the product image
    productHeight,     \* intrinsic height of the product image
    productDrawn,      \* rectangle at which resizeImage drew the product
    \* ---- React state of the App and the asynchronous work in flight
    currentStep,       \* "home" | "step1" | "step2" | "step3"
    sceneImage,        \* File | null
    selectedProduct,   \* single-item App: product | null
    selectedProducts,  \* multi-item App: list of products
    isLoading,
    isSceneLoading,
    error,             \* message | null
    debugPrompt,       \* prompt | null
    finalResult,       \* single-item App: data URL | null
    isResultReady,     \* single-item App
    runs,              \* the handleApplyProducts calls made, in call order
    loads,             \* handleSceneUpload / handleInstantStart calls in flight
    loadCount,         \* handleSceneUpload / handleInstantStart calls made
    \* ---- getPlacementInstructions and its arguments
    productType,       \* "plant" | "tile"
    productSize,       \* the size string, as its characters
    pcRule,            \* "idle" | "called" | "returned"
    instructions,      \* the rule put into the prompt
    ruleProduct        \* the catalog product the arguments were taken from

placeVars ==
    <<placedPositions, pcPlace, isTile, attempt, draws, position, placedVia>>

geoVars ==
    <<imgWidth, imgHeight, targetDimension, pcGeo, originalWidth, originalHeight,
      drawn, cropped, outWidth, outHeight, geoItems, productWidth,
      productHeight, productDrawn>>

appVars ==
    <<currentStep, sceneImage, selectedProduct, selectedProducts, isLoading,
      isSceneLoading, error, debugPrompt, finalResult, isResultReady, runs,
      loads, loadCount>>

ruleVars == <<productType, productSize, pcRule, instructions, ruleProduct>>

vars == <<placeVars, geoVars, appVars, ruleVars>>

\* What the placement steps leave alone, and what the geometry steps leave alone
outsidePlace == <<geoVars, appVars, ruleVars>>

outsideGeo == <<placeVars, appVars, ruleVars>>

\* What the App's handlers and the pipeline's stages leave alone
outsideApp == <<placeVars, geoVars, ruleVars>>

\* What the building of the placement rule leaves alone
outsideRule == <<placeVars, geoVars, appVars>>

-----------------------------------------------------------------------------
(* Bounds of the model *)

\* Math.random() is drawn from {0/RandDenom, ..., (RandDenom-1)/RandDenom}.
RandDenom == 2

\* Number of sequential generateSmartPosition calls of one run.
MaxPlacements == 3

\* Source images of every width and height in 1 .. MaxSide (and SpecialSizes).
MaxSide == 5

\* Target dimensions 1 .. MaxTarget (and MAX_DIMENSION).
MaxTarget == 2

\* Items composited one after the other into the same scene.
MaxGeoItems == 2

\* Product images are portrait, landscape or square, with a longer side of
\* MaxProductSide.
MaxProductSide == 2

\* handleApplyProducts calls made in one session of the App.
MaxRuns == 2

\* handleSceneUpload and handleInstantStart calls made in one session.
MaxLoads == 3

-----------------------------------------------------------------------------
(* generateSmartPosition                                                    *)
(* Percent coordinates are held as integers in units of 1/RandDenom         *)
(* percent, so that xMin + random * (xMax - xMin) is exact.                  *)

maxAttempts == 50

minDistance == 25

RandomOutcomes == 0 .. (RandDenom - 1)

Scaled(p) == p * RandDenom

\* Wall areas whose second area is not on a wall
wallAreasMisplaced ==
    << [xMin |-> 5,  xMax |-> 25, yMin |-> 10, yMax |-> 40],
       [xMin |-> 55, xMax |-> 75, yMin |-> 30, yMax |-> 50],
       [xMin |-> 20, xMax |-> 80, yMin |-> 5,  yMax |-> 25] >>

wallAreas ==
    << [xMin |-> 5,  xMax |-> 25, yMin |-> 10, yMax |-> 40],
       [xMin |-> 75, xMax |-> 95, yMin |-> 10, yMax |-> 40],
       [xMin |-> 20, xMax |-> 80, yMin |-> 5,  yMax |-> 25] >>

surfaceAreas ==
    << [xMin |-> 15, xMax |-> 85, yMin |-> 60, yMax |-> 90],
       [xMin |-> 20, xMax |-> 80, yMin |-> 40, yMax |-> 70] >>

\* areas[Math.floor(Math.random() * areas.length)], random = k / RandDenom
PickArea(areas, k) == areas[((k * Len(areas)) \div RandDenom) + 1]

\* area.xMin + Math.random() * (area.xMax - area.xMin), in scaled units
DrawCoord(lo, hi, k) == Scaled(lo) + k * (hi - lo)

Candidate(tile, ka, kx, ky) ==
    LET area == PickArea(IF tile THEN wallAreas ELSE surfaceAreas, ka)
    IN  [xPercent |-> DrawCoord(area.xMin, area.xMax, kx),
         yPercent |-> DrawCoord(area.yMin, area.yMax, ky)]

SqDistance(p, q) ==
    (p.xPercent - q.xPercent) * (p.xPercent - q.xPercent)
    + (p.yPercent - q.yPercent) * (p.yPercent - q.yPercent)

MinDistanceSq == Scaled(minDistance) * Scaled(minDistance)

\* A comparison of the squared distance with the unsquared threshold
TooCloseUnsquared(p, q) == SqDistance(p, q) < Scaled(minDistance)

\* Math.sqrt(dx^2 + dy^2) < minDistance, compared on the squares
TooClose(p, q) == SqDistance(p, q) < MinDistanceSq

Conflicts(p, placed) ==
    \E i \in 1 .. Len(placed) : TooClose(p, placed[i])

\* A fallback without the remainders
FallbackUnbounded(tile, placed) ==
    [xPercent |-> Scaled(20 + (Len(placed) * 20)),
     yPercent |-> IF tile THEN Scaled(15 + (Len(placed) * 10))
                          ELSE Scaled(70 + (Len(placed) * 20))]

\* A fallback that takes the remainder of the whole sum
FallbackRemainderOfSum(tile, placed) ==
    [xPercent |-> Scaled((20 + (Len(placed) * 20)) % 60),
     yPercent |-> IF tile THEN Scaled((15 + (Len(placed) * 10)) % 25)
                          ELSE Scaled((70 + (Len(placed) * 10)) % 20)]

FallbackPosition(tile, placed) ==
    [xPercent |-> Scaled(20 + ((Len(placed) * 20) % 60)),
     yPercent |-> IF tile THEN Scaled(15 + ((Len(placed) * 10) % 25))
                          ELSE Scaled(70 + ((Len(placed) * 10) % 20))]

TypeOf(tile) == IF tile THEN "tile" ELSE "plant"

NoPosition == [xPercent |-> -1, yPercent |-> -1]

PlaceIdle ==
    /\ placedPositions = << >>
    /\ pcPlace = "idle"
    /\ isTile = FALSE
    /\ attempt = 0
    /\ draws = 0
    /\ position = NoPosition
    /\ placedVia = << >>

\* A loop test that lets one attempt too many through
LoopContinuesOffByOne(a) == a <= maxAttempts

\* attempt < maxAttempts
LoopContinues(a) == a < maxAttempts

\* handleApplyProducts calls generateSmartPosition(product.isTile, placedPositions)
CallSmartPosition(tile) ==
    /\ pcPlace = "idle"
    /\ Len(placedPositions) < MaxPlacements
    /\ pcPlace' = "loop"
    /\ isTile' = tile
    /\ attempt' = 0
    /\ draws' = 0
    /\ UNCHANGED <<placedPositions, position, placedVia>>
    /\ UNCHANGED outsidePlace

\* One iteration of the for loop: three Math.random() draws, the conflict check
LoopAttempt(ka, kx, ky) ==
    /\ pcPlace = "loop"
    /\ LoopContinues(attempt)
    /\ draws' = draws + 1
    /\ LET cand == Candidate(isTile, ka, kx, ky)
       IN  IF ~Conflicts(cand, placedPositions)
           THEN /\ position' = cand
                /\ pcPlace' = "returnedLoop"
                /\ UNCHANGED attempt
           ELSE /\ attempt' = attempt + 1
                /\ UNCHANGED <<position, pcPlace>>
    /\ UNCHANGED <<placedPositions, isTile, placedVia>>
    /\ UNCHANGED outsidePlace

\* The loop condition fails: the fallback position is returned
LoopExhausted ==
    /\ pcPlace = "loop"
    /\ ~LoopContinues(attempt)
    /\ position' = FallbackPosition(isTile, placedPositions)
    /\ pcPlace' = "returnedFallback"
    /\ UNCHANGED <<placedPositions, isTile, attempt, draws, placedVia>>
    /\ UNCHANGED outsidePlace

\* The entry pushed without the category of the item
PushPositionUntagged ==
    /\ pcPlace \in {"returnedLoop", "returnedFallback"}
    /\ placedPositions' = Append(placedPositions,
           [xPercent |-> position.xPercent, yPercent |-> position.yPercent,
            type |-> "plant"])
    /\ placedVia' = Append(placedVia,
           IF pcPlace = "returnedLoop" THEN "loop" ELSE "fallback")
    /\ pcPlace' = "idle"
    /\ attempt' = 0
    /\ draws' = 0
    /\ position' = NoPosition
    /\ UNCHANGED isTile
    /\ UNCHANGED outsidePlace

\* placedPositions.push({ ...position, type })
PushPosition ==
    /\ pcPlace \in {"returnedLoop", "returnedFallback"}
    /\ placedPositions' = Append(placedPositions,
           [xPercent |-> position.xPercent, yPercent |-> position.yPercent,
            type |-> TypeOf(isTile)])
    /\ placedVia' = Append(placedVia,
           IF pcPlace = "returnedLoop" THEN "loop" ELSE "fallback")
    /\ pcPlace' = "idle"
    /\ attempt' = 0
    /\ draws' = 0
    /\ position' = NoPosition
    /\ UNCHANGED isTile
    /\ UNCHANGED outsidePlace

NextPlace ==
    \/ \E tile \in BOOLEAN : CallSmartPosition(tile)
    \/ \E ka, kx, ky \in RandomOutcomes : LoopAttempt(ka, kx, ky)
    \/ LoopExhausted
    \/ PushPosition

-----------------------------------------------------------------------------
(* JavaScript numbers.                                                      *)
(* The geometry is computed on IEEE-754 doubles.  A double is held exactly  *)
(* as [neg, m, e] with value (-1)^neg * m * 2^e, m a 53-bit natural number  *)
(* (2^52 <= m < 2^53) or zero.  m is a list of limbs, least significant     *)
(* first, because it does not fit the model checker's integers.  Every      *)
(* operation rounds to nearest, ties to even, as the hardware does.         *)

MantissaBits == 53

LimbBits == 13

LimbBase == 2 ^ LimbBits

RECURSIVE BigNorm(_)
BigNorm(a) ==
    IF a = << >> THEN << >>
    ELSE IF a[Len(a)] = 0 THEN BigNorm(SubSeq(a, 1, Len(a) - 1))
    ELSE a

RECURSIVE BigFromInt(_)
BigFromInt(n) ==
    IF n = 0 THEN << >> ELSE <<n % LimbBase>> \o BigFromInt(n \div LimbBase)

RECURSIVE BigToInt(_)
BigToInt(a) ==
    IF a = << >> THEN 0 ELSE a[1] + LimbBase * BigToInt(Tail(a))

RECURSIVE BigCmpFrom(_, _, _)
BigCmpFrom(a, b, i) ==
    IF i = 0 THEN 0
    ELSE IF a[i] < b[i] THEN -1
    ELSE IF a[i] > b[i] THEN 1
    ELSE BigCmpFrom(a, b, i - 1)

\* -1, 0, 1 as a < b, a = b, a > b
BigCmp(a, b) ==
    IF Len(a) < Len(b) THEN -1
    ELSE IF Len(a) > Len(b) THEN 1
    ELSE BigCmpFrom(a, b, Len(a))

RECURSIVE BigAddCarry(_, _, _)
BigAddCarry(a, b, c) ==
    IF a = << >> /\ b = << >> THEN BigFromInt(c)
    ELSE LET x == IF a = << >> THEN 0 ELSE a[1]
             y == IF b = << >> THEN 0 ELSE b[1]
             t == x + y + c
         IN  <<t % LimbBase>>
             \o BigAddCarry(IF a = << >> THEN << >> ELSE Tail(a),
                            IF b = << >> THEN << >> ELSE Tail(b),
                            t \div LimbBase)

BigAdd(a, b) == BigAddCarry(a, b, 0)

RECURSIVE BigSubBorrow(_, _, _)
BigSubBorrow(a, b, c) ==
    IF a = << >> THEN << >>
    ELSE LET y == IF b = << >> THEN 0 ELSE b[1]
             t == a[1] - y - c
         IN  <<t % LimbBase>>
             \o BigSubBorrow(Tail(a),
                             IF b = << >> THEN << >> ELSE Tail(b),
                             IF t < 0 THEN 1 ELSE 0)

\* a - b for a >= b
BigSub(a, b) == BigNorm(BigSubBorrow(a, b, 0))

RECURSIVE BigMulSmall(_, _, _)
\* a * m + c for m < 2^17
BigMulSmall(a, m, c) ==
    IF a = << >> THEN BigFromInt(c)
    ELSE LET t == a[1] * m + c
         IN  <<t % LimbBase>> \o BigMulSmall(Tail(a), m, t \div LimbBase)

RECURSIVE BigMul(_, _)
BigMul(a, b) ==
    IF b = << >> \/ a = << >> THEN << >>
    ELSE BigNorm(BigAdd(BigMulSmall(a, b[1], 0),
                        LET rest == BigMul(a, Tail(b))
                        IN  IF rest = << >> THEN << >> ELSE <<0>> \o rest))

RECURSIVE BitLenInt(_)
BitLenInt(n) == IF n = 0 THEN 0 ELSE 1 + BitLenInt(n \div 2)

BigBitLen(a) ==
    IF a = << >> THEN 0
    ELSE LimbBits * (Len(a) - 1) + BitLenInt(a[Len(a)])

\* a * 2^k
BigShl(a, k) ==
    IF a = << >> THEN << >>
    ELSE [i \in 1 .. (k \div LimbBits) |-> 0]
         \o BigMulSmall(a, 2 ^ (k % LimbBits), 0)

RECURSIVE BigDivSmallFrom(_, _, _, _)
BigDivSmallFrom(a, m, i, r) ==
    IF i = 0 THEN << >>
    ELSE LET t == r * LimbBase + a[i]
         IN  BigDivSmallFrom(a, m, i - 1, t % m) \o <<t \div m>>

\* floor(a / 2^k)
BigShr(a, k) ==
    IF k \div LimbBits >= Len(a) THEN << >>
    ELSE LET dropped == SubSeq(a, (k \div LimbBits) + 1, Len(a))
         IN  BigNorm(BigDivSmallFrom(dropped, 2 ^ (k % LimbBits), Len(dropped), 0))

BigIsOdd(a) == a # << >> /\ a[1] % 2 = 1

BigOne == <<1>>

DoubleZero == [neg |-> FALSE, m |-> << >>, e |-> 0]

RECURSIVE FractionBits(_, _, _)
\* n more quotient bits of s.r / y (s.r < y) appended to the mantissa s.m
FractionBits(s, y, n) ==
    IF n = 0 THEN s
    ELSE LET r2 == BigMulSmall(s.r, 2, 0)
         IN  IF BigCmp(r2, y) >= 0
             THEN FractionBits([m |-> BigMulSmall(s.m, 2, 1), r |-> BigSub(r2, y)],
                               y, n - 1)
             ELSE FractionBits([m |-> BigMulSmall(s.m, 2, 0), r |-> r2],
                               y, n - 1)

\* Round to nearest, ties to even: q.m is the truncated 53-bit mantissa and
\* q.r the remainder of the division by y; the value is mantissa * 2^e
RoundNearestEven(q, y, e) ==
    IF \/ BigCmp(BigMulSmall(q.r, 2, 0), y) > 0
       \/ BigCmp(BigMulSmall(q.r, 2, 0), y) = 0 /\ BigIsOdd(q.m)
    THEN IF BigBitLen(BigAdd(q.m, BigOne)) > MantissaBits
         THEN [neg |-> FALSE, m |-> BigShr(BigAdd(q.m, BigOne), 1), e |-> e + 1]
         ELSE [neg |-> FALSE, m |-> BigAdd(q.m, BigOne), e |-> e]
    ELSE [neg |-> FALSE, m |-> q.m, e |-> e]

\* x / y in [1, 2): the leading bit is 1, 52 more bits follow
RoundNormalized(x, y, e) ==
    RoundNearestEven(
        FractionBits([m |-> BigOne, r |-> BigSub(x, y)], y, MantissaBits - 1),
        y, e - (MantissaBits - 1))

\* x and y of the same bit length: x / y in (1/2, 2)
RoundAligned(x, y, e) ==
    IF BigCmp(x, y) < 0
    THEN RoundNormalized(BigMulSmall(x, 2, 0), y, e - 1)
    ELSE RoundNormalized(x, y, e)

\* d is the bit length of x less that of y
RoundShifted(x, y, e, d) ==
    RoundAligned(IF d < 0 THEN BigShl(x, -d) ELSE x,
                 IF d > 0 THEN BigShl(y, d) ELSE y,
                 e + d)

\* The double nearest to (x / y) * 2^e, ties to even, for naturals x, y > 0
RoundQuotient(x, y, e) ==
    IF x = << >> THEN DoubleZero
    ELSE RoundShifted(x, y, e, BigBitLen(x) - BigBitLen(y))

\* A JavaScript number holding the integer n >= 0
DoubleOfInt(n) == RoundQuotient(BigFromInt(n), BigOne, 0)

\* a / b for a >= 0, b > 0
DoubleDiv(a, b) == RoundQuotient(a.m, b.m, a.e - b.e)

\* a * b for a, b >= 0
DoubleMul(a, b) ==
    IF a.m = << >> \/ b.m = << >> THEN DoubleZero
    ELSE RoundQuotient(BigMul(a.m, b.m), BigOne, a.e + b.e)

\* -1, 0, 1 as a < b, a = b, a > b, for a, b >= 0
DoubleCmp(a, b) ==
    IF a.m = << >> THEN (IF b.m = << >> THEN 0 ELSE -1)
    ELSE IF b.m = << >> THEN 1
    ELSE IF a.e < b.e THEN -1
    ELSE IF a.e > b.e THEN 1
    ELSE BigCmp(a.m, b.m)

DoubleNeg(a) ==
    IF a.m = << >> THEN a ELSE [neg |-> ~a.neg, m |-> a.m, e |-> a.e]

\* x - y at the common exponent e
DoubleSubAligned(x, y, e) ==
    IF BigCmp(x, y) >= 0
    THEN RoundQuotient(BigSub(x, y), BigOne, e)
    ELSE DoubleNeg(RoundQuotient(BigSub(y, x), BigOne, e))

DoubleSubAt(a, b, e) ==
    DoubleSubAligned(BigShl(a.m, a.e - e), BigShl(b.m, b.e - e), e)

\* a - b for a, b >= 0
DoubleSub(a, b) ==
    IF b.m = << >> THEN a
    ELSE IF a.m = << >> THEN DoubleNeg(b)
    ELSE DoubleSubAt(a, b, IF a.e < b.e THEN a.e ELSE b.e)

\* a / 2
DoubleHalf(a) ==
    IF a.m = << >> THEN a ELSE [neg |-> a.neg, m |-> a.m, e |-> a.e - 1]

DoubleIsNegative(a) == a.neg

DoubleIsZero(a) == a.m = << >>

\* The integer part of a >= 0, as an assignment to canvas.width takes it
DoubleTrunc(a) ==
    IF a.m = << >> THEN 0
    ELSE IF a.e >= 0 THEN BigToInt(BigShl(a.m, a.e))
    ELSE BigToInt(BigShr(a.m, -a.e))

-----------------------------------------------------------------------------
(* resizeImage and cropToOriginalAspectRatio                                *)

MAX_DIMENSION == 1024

SpecialSizes ==
    { <<1600, 900>>, <<900, 1600>>, <<128, 93>>, <<93, 128>>, <<1024, 744>> }

SourceSizes == ((1 .. MaxSide) \X (1 .. MaxSide)) \cup SpecialSizes

TargetDimensions == {MAX_DIMENSION} \cup (1 .. MaxTarget)

ProductSizes ==
    {<<1, MaxProductSide>>, <<MaxProductSide, 1>>,
     <<MaxProductSide, MaxProductSide>>}

NoRect ==
    [x |-> DoubleZero, y |-> DoubleZero, width |-> DoubleZero, height |-> DoubleZero]

\* A landscape test with the comparison turned around
LandscapeInverted(aspectRatio) == DoubleCmp(aspectRatio, DoubleOfInt(1)) < 0

\* resizeImage: aspectRatio > 1
ResizeLandscape(aspectRatio) == DoubleCmp(aspectRatio, DoubleOfInt(1)) > 0

\* cropToOriginalAspectRatio: aspectRatio > 1
CropLandscape(aspectRatio) == DoubleCmp(aspectRatio, DoubleOfInt(1)) > 0

\* A rectangle put in the top left corner of the square
CenteredAtOrigin(d, width, height) ==
    [x |-> DoubleZero, y |-> DoubleZero, width |-> width, height |-> height]

\* The rectangle of the given width and height centered in the square:
\* x = (dimension - width) / 2, y = (dimension - height) / 2
Centered(d, width, height) ==
    [x |-> DoubleHalf(DoubleSub(d, width)),
     y |-> DoubleHalf(DoubleSub(d, height)),
     width |-> width, height |-> height]

\* A resize that stretches the image over the whole square
ResizeFitStretched(aspectRatio, d) == Centered(d, d, d)

\* resizeImage: newWidth, newHeight and the centered position
ResizeFit(aspectRatio, d) ==
    IF ResizeLandscape(aspectRatio)
    THEN Centered(d, d, DoubleDiv(d, aspectRatio))
    ELSE Centered(d, DoubleMul(d, aspectRatio), d)

\* resizeImage: the rectangle ctx.drawImage(img, x, y, newWidth, newHeight) fills
ResizeRect(width, height, dimension) ==
    ResizeFit(DoubleDiv(DoubleOfInt(width), DoubleOfInt(height)),
              DoubleOfInt(dimension))

\* cropToOriginalAspectRatio: contentWidth, contentHeight and the offset
CropFit(aspectRatio, d) ==
    IF CropLandscape(aspectRatio)
    THEN Centered(d, d, DoubleDiv(d, aspectRatio))
    ELSE Centered(d, DoubleMul(d, aspectRatio), d)

\* A crop that takes the aspect ratio as height / width
CropRectTransposed(width, height, dimension) ==
    CropFit(DoubleDiv(DoubleOfInt(height), DoubleOfInt(width)),
            DoubleOfInt(dimension))

\* cropToOriginalAspectRatio: the source rectangle of its ctx.drawImage
CropRect(width, height, dimension) ==
    CropFit(DoubleDiv(DoubleOfInt(width), DoubleOfInt(height)),
            DoubleOfInt(dimension))

GeoIdle ==
    /\ imgWidth = 1
    /\ imgHeight = 1
    /\ targetDimension = MAX_DIMENSION
    /\ pcGeo = "source"
    /\ originalWidth = 0
    /\ originalHeight = 0
    /\ drawn = NoRect
    /\ cropped = NoRect
    /\ outWidth = 0
    /\ outHeight = 0
    /\ geoItems = 0
    /\ productWidth = 1
    /\ productHeight = 1
    /\ productDrawn = NoRect

\* generateCompositeImage is called with a product image and a scene image
\* of some sizes
GeoStart ==
    /\ \E size \in SourceSizes : imgWidth = size[1] /\ imgHeight = size[2]
    /\ \E size \in ProductSizes :
          productWidth = size[1] /\ productHeight = size[2]
    /\ productDrawn = NoRect
    /\ targetDimension \in TargetDimensions
    /\ pcGeo = "source"
    /\ originalWidth = 0
    /\ originalHeight = 0
    /\ drawn = NoRect
    /\ cropped = NoRect
    /\ outWidth = 0
    /\ outHeight = 0
    /\ geoItems = 0

\* The dimensions of the product image taken for those of the scene
ReadDimensionsOfProduct ==
    /\ pcGeo = "source"
    /\ originalWidth' = productWidth
    /\ originalHeight' = productHeight
    /\ pcGeo' = "measured"
    /\ drawn' = NoRect
    /\ cropped' = NoRect
    /\ productDrawn' = NoRect
    /\ outWidth' = 0
    /\ outHeight' = 0
    /\ UNCHANGED <<imgWidth, imgHeight, targetDimension, geoItems,
                   productWidth, productHeight>>
    /\ UNCHANGED outsideGeo

\* generateCompositeImage: getImageDimensions(environmentImage)
ReadDimensions ==
    /\ pcGeo = "source"
    /\ originalWidth' = imgWidth
    /\ originalHeight' = imgHeight
    /\ pcGeo' = "measured"
    /\ drawn' = NoRect
    /\ cropped' = NoRect
    /\ productDrawn' = NoRect
    /\ outWidth' = 0
    /\ outHeight' = 0
    /\ UNCHANGED <<imgWidth, imgHeight, targetDimension, geoItems,
                   productWidth, productHeight>>
    /\ UNCHANGED outsideGeo

\* generateCompositeImage: resizeImage(productImage, MAX_DIMENSION)
ResizeProduct ==
    /\ pcGeo = "measured"
    /\ productDrawn' = ResizeRect(productWidth, productHeight, targetDimension)
    /\ pcGeo' = "productResized"
    /\ UNCHANGED <<imgWidth, imgHeight, targetDimension, originalWidth,
                   originalHeight, drawn, cropped, outWidth, outHeight,
                   geoItems, productWidth, productHeight>>
    /\ UNCHANGED outsideGeo

\* generateCompositeImage: resizeImage(environmentImage, MAX_DIMENSION)
ResizeScene ==
    /\ pcGeo = "productResized"
    /\ drawn' = ResizeRect(imgWidth, imgHeight, targetDimension)
    /\ pcGeo' = "normalized"
    /\ UNCHANGED <<imgWidth, imgHeight, targetDimension, originalWidth,
                   originalHeight, cropped, outWidth, outHeight, geoItems,
                   productWidth, productHeight, productDrawn>>
    /\ UNCHANGED outsideGeo

\* The generator answers with a square image of the same geometry
GenerateSquare ==
    /\ pcGeo = "normalized"
    /\ pcGeo' = "generated"
    /\ UNCHANGED <<imgWidth, imgHeight, targetDimension, originalWidth,
                   originalHeight, drawn, cropped, outWidth, outHeight, geoItems,
                   productWidth, productHeight, productDrawn>>
    /\ UNCHANGED outsideGeo

\* generateCompositeImage: cropToOriginalAspectRatio(square, originalWidth,
\* originalHeight, MAX_DIMENSION); canvas.width / height take the integer part
CropGenerated ==
    /\ pcGeo = "generated"
    /\ cropped' = CropRect(originalWidth, originalHeight, targetDimension)
    /\ outWidth' = DoubleTrunc(cropped'.width)
    /\ outHeight' = DoubleTrunc(cropped'.height)
    /\ pcGeo' = "restored"
    /\ geoItems' = geoItems + 1
    /\ UNCHANGED <<imgWidth, imgHeight, targetDimension, originalWidth,
                   originalHeight, drawn, productWidth, productHeight,
                   productDrawn>>
    /\ UNCHANGED outsideGeo

\* handleApplyProducts: the cropped image is the scene of the next item,
\* which has a product image of its own
NextItemScene ==
    /\ pcGeo = "restored"
    /\ geoItems < MaxGeoItems
    /\ outWidth > 0
    /\ outHeight > 0
    /\ imgWidth' = outWidth
    /\ imgHeight' = outHeight
    /\ \E size \in ProductSizes :
          productWidth' = size[1] /\ productHeight' = size[2]
    /\ pcGeo' = "source"
    /\ UNCHANGED <<targetDimension, originalWidth, originalHeight, drawn,
                   cropped, outWidth, outHeight, geoItems, productDrawn>>
    /\ UNCHANGED outsideGeo

NextGeo ==
    \/ ReadDimensions
    \/ ResizeProduct
    \/ ResizeScene
    \/ GenerateSquare
    \/ CropGenerated
    \/ NextItemScene

-----------------------------------------------------------------------------
(* The App: values of its state                                             *)
(* An image is identified by the upload it started from and by the          *)
(* composites layered on it, each named by the run and the item that        *)
(* produced it.  A File and the data URL of the same pixels are the same    *)
(* image.                                                                   *)

Steps == {"home", "step1", "step2", "step3"}

\* null, for every nullable piece of state
Null == [null |-> TRUE]

\* A value of the error state that is not null
Message(text) == [message |-> text]

\* The file of the load-th scene upload or demo scene
SceneFile(load) == [base |-> load, layers |-> << >>]

\* The image generated for the item-th product of run r on the given scene
Composite(scene, r, item) ==
    [base |-> scene.base, layers |-> Append(scene.layers, <<r, item>>)]

\* Products the catalogs offer: one plant and one gallery wall
Catalog ==
    { [name |-> "Pothos", type |-> "plant", size |-> "sm", isTile |-> FALSE],
      [name |-> "Gallery Wall", type |-> "tile", size |-> "gallery-wall",
       isTile |-> TRUE] }

\* The prompt generateCompositeImage returns for a product
PromptFor(product) == [type |-> product.type, size |-> product.size]

\* The awaited stages of one item, in program order
Stages ==
    << "fetch", "blob", "dims", "resizeProduct", "resizeScene", "partProduct",
       "partScene", "generate", "crop" >>

\* What a stage can throw or reject with: an Error with its message, or a
\* value that is not an Error (a FileReader's error event)
Thrown(message) == [isError |-> TRUE, message |-> message]

NotAnError == [isError |-> FALSE, message |-> ""]

NoImageMessage == "The AI model did not return an image. Please try again."

Failures(stage, product) ==
    CASE stage = "fetch" ->
             { Thrown("Failed to fetch"),
               Thrown("Failed to load product image for " \o product.name) }
      [] stage = "blob" -> { Thrown("Failed to fetch") }
      [] stage = "dims" -> { Thrown("Failed to read file.") }
      [] stage = "resizeProduct" -> { Thrown("Could not get canvas context.") }
      [] stage = "resizeScene" -> { Thrown("Canvas to Blob conversion failed.") }
      [] stage = "partProduct" -> { NotAnError }
      [] stage = "partScene" -> { Thrown("Invalid data URL") }
      [] stage = "generate" ->
             { Thrown("Internal error encountered."), Thrown(NoImageMessage) }
      [] stage = "crop" -> { Thrown("Could not get canvas context for cropping.") }

\* err instanceof Error ? err.message : 'An unknown error occurred.'
ErrorMessage(err) ==
    IF err.isError THEN err.message ELSE "An unknown error occurred."

InFlight(run) == run.pc \notin {"done", "failed"}

\* A handleApplyProducts call that has passed its checks: its closure holds the
\* scene and the products of the render it was called from
NewRun(scene, products) ==
    [ pc       |-> "fetch",
      item     |-> 1,
      products |-> products,
      start    |-> scene,
      scene    |-> scene,              \* currentSceneImage
      placed   |-> << >>,              \* types of placedPositions
      log      |-> << <<1, "fetch">> >>,  \* stages started, as <<item, stage>>
      overlap  |-> { q \in 1 .. Len(runs) : InFlight(runs[q]) },
                                       \* runs in flight while this one is
      thrown   |-> Null ]

\* The runs so far, with the call being made added
WithNewRun(scene, products) ==
    Append([q \in 1 .. Len(runs) |->
               IF InFlight(runs[q])
               THEN [runs[q] EXCEPT !.overlap = @ \cup {Len(runs) + 1}]
               ELSE runs[q]],
           NewRun(scene, products))

\* The call has returned: its closure is gone, what is kept is how it ended
\* and which stages it started
Ended(run, pc, thrown) ==
    [ pc       |-> pc,
      item     |-> run.item,
      products |-> << >>,
      start    |-> Null,
      scene    |-> Null,
      placed   |-> << >>,
      log      |-> run.log,
      overlap  |-> {},
      thrown   |-> thrown ]

\* The run enters a stage
StartStage(run, item, stage) ==
    [run EXCEPT !.pc = stage, !.item = item,
                !.log = Append(@, <<item, stage>>)]

AppIdle ==
    /\ currentStep = "home"
    /\ sceneImage = Null
    /\ selectedProduct = Null
    /\ selectedProducts = << >>
    /\ isLoading = FALSE
    /\ isSceneLoading = FALSE
    /\ error = Null
    /\ debugPrompt = Null
    /\ finalResult = Null
    /\ isResultReady = FALSE
    /\ runs = << >>
    /\ loads = {}
    /\ loadCount = 0

-----------------------------------------------------------------------------
(* Scene loads: handleSceneUpload and handleInstantStart                    *)

\* handleSceneUpload up to its await: the two-second timer is started
StartSceneUpload ==
    /\ loadCount < MaxLoads
    /\ isSceneLoading' = TRUE
    /\ error' = Null
    /\ loadCount' = loadCount + 1
    /\ loads' = loads \cup {[id |-> loadCount + 1, kind |-> "upload", pc |-> "timer"]}
    /\ UNCHANGED <<currentStep, sceneImage, selectedProduct, selectedProducts,
                   isLoading, debugPrompt, finalResult, isResultReady, runs>>
    /\ UNCHANGED outsideApp

\* handleSceneUpload after the timer: setSceneImage(file), step2, and finally
\* setIsSceneLoading(false)
SceneUploadCompletes(load) ==
    /\ load \in loads
    /\ load.pc = "timer"
    /\ sceneImage' = SceneFile(load.id)
    /\ currentStep' = "step2"
    /\ isSceneLoading' = FALSE
    /\ loads' = loads \ {load}
    /\ UNCHANGED <<selectedProduct, selectedProducts, isLoading, error,
                   debugPrompt, finalResult, isResultReady, runs, loadCount>>
    /\ UNCHANGED outsideApp

\* handleInstantStart up to its first await: setError(null), fetch(scene)
StartInstantStart ==
    /\ loadCount < MaxLoads
    /\ error' = Null
    /\ loadCount' = loadCount + 1
    /\ loads' = loads \cup {[id |-> loadCount + 1, kind |-> "instant", pc |-> "fetch"]}
    /\ UNCHANGED <<currentStep, sceneImage, selectedProduct, selectedProducts,
                   isLoading, isSceneLoading, debugPrompt, finalResult,
                   isResultReady, runs>>
    /\ UNCHANGED outsideApp

\* handleInstantStart: the fetch resolved with an ok response; blob() is awaited
InstantFetchResolves(load) ==
    /\ load \in loads
    /\ load.pc = "fetch"
    /\ loads' = (loads \ {load}) \cup {[load EXCEPT !.pc = "blob"]}
    /\ UNCHANGED <<currentStep, sceneImage, selectedProduct, selectedProducts,
                   isLoading, isSceneLoading, error, debugPrompt, finalResult,
                   isResultReady, runs, loadCount>>
    /\ UNCHANGED outsideApp

\* handleInstantStart: the blob arrived; setSceneImage(sceneFile), step2
InstantBlobResolves(load) ==
    /\ load \in loads
    /\ load.pc = "blob"
    /\ sceneImage' = SceneFile(load.id)
    /\ currentStep' = "step2"
    /\ loads' = loads \ {load}
    /\ UNCHANGED <<selectedProduct, selectedProducts, isLoading, isSceneLoading,
                   error, debugPrompt, finalResult, isResultReady, runs, loadCount>>
    /\ UNCHANGED outsideApp

\* What handleInstantStart can catch while it awaits the fetch or the blob
InstantFailures(pc, sceneName) ==
    IF pc = "fetch"
    THEN { Thrown("Failed to fetch"), Thrown("Failed to load " \o sceneName \o " scene") }
    ELSE { Thrown("Failed to fetch") }

\* handleInstantStart: the fetch or the blob failed; the catch block sets error
InstantStartFails(prefix, sceneName, load, err) ==
    /\ load \in loads
    /\ load.kind = "instant"
    /\ err \in InstantFailures(load.pc, sceneName)
    /\ error' = Message(prefix \o ErrorMessage(err))
    /\ loads' = loads \ {load}
    /\ UNCHANGED <<currentStep, sceneImage, selectedProduct, selectedProducts,
                   isLoading, isSceneLoading, debugPrompt, finalResult,
                   isResultReady, runs, loadCount>>
    /\ UNCHANGED outsideApp

-----------------------------------------------------------------------------
(* generateCompositeImage: the awaited stages between the call and the crop *)

\* The stage the run awaits resolves and the next one is started
StageResolves(r, stage, next) ==
    /\ r \in 1 .. Len(runs)
    /\ runs[r].pc = stage
    /\ runs' = [runs EXCEPT ![r] = StartStage(@, @.item, next)]
    /\ UNCHANGED <<currentStep, sceneImage, selectedProduct, selectedProducts,
                   isLoading, isSceneLoading, error, debugPrompt, finalResult,
                   isResultReady, loads, loadCount>>
    /\ UNCHANGED outsideApp

\* getImageDimensions(environmentImage) resolved; resizeImage(productImage)
DimensionsResolve(r) == StageResolves(r, "dims", "resizeProduct")

\* resizeImage(productImage) resolved; resizeImage(environmentImage)
ProductResized(r) == StageResolves(r, "resizeProduct", "resizeScene")

\* resizeImage(environmentImage) resolved; fileToPart(resizedProductImage)
SceneResized(r) == StageResolves(r, "resizeScene", "partProduct")

\* fileToPart(resizedProductImage) resolved; fileToPart(resizedEnvironmentImage)
ProductPartRead(r) == StageResolves(r, "partProduct", "partScene")

\* fileToPart(resizedEnvironmentImage) resolved; ai.models.generateContent
ScenePartRead(r) == StageResolves(r, "partScene", "generate")

\* The response holds an image part; cropToOriginalAspectRatio
GeneratorReturnsImage(r) == StageResolves(r, "generate", "crop")

\* fetch(product.imageUrl) resolved with an ok response; response.blob()
FetchResolves(r) == StageResolves(r, "fetch", "blob")

\* A catch block that also drops the scene
ApplyFailsDroppingScene(prefix, r, err) ==
    /\ r \in 1 .. Len(runs)
    /\ InFlight(runs[r])
    /\ err \in Failures(runs[r].pc, runs[r].products[runs[r].item])
    /\ runs' = [runs EXCEPT ![r] = Ended(@, "failed", err)]
    /\ error' = Message(prefix \o ErrorMessage(err))
    /\ isLoading' = FALSE
    /\ sceneImage' = Null
    /\ UNCHANGED <<currentStep, selectedProduct, selectedProducts,
                   isSceneLoading, debugPrompt, finalResult, isResultReady,
                   loads, loadCount>>
    /\ UNCHANGED outsideApp

\* A catch block that calls the stage that failed once more
ApplyFailsAndRetries(prefix, r, err) ==
    /\ r \in 1 .. Len(runs)
    /\ InFlight(runs[r])
    /\ err \in Failures(runs[r].pc, runs[r].products[runs[r].item])
    /\ runs' = [runs EXCEPT ![r] = StartStage(@, @.item, @.pc)]
    /\ Len(runs[r].log) < 2 * Len(Stages)
    /\ error' = Message(prefix \o ErrorMessage(err))
    /\ UNCHANGED <<currentStep, sceneImage, selectedProduct, selectedProducts,
                   isLoading, isSceneLoading, debugPrompt, finalResult,
                   isResultReady, loads, loadCount>>
    /\ UNCHANGED outsideApp

\* A catch block that puts back the scene the call started with
ApplyFailsRestoringStart(prefix, r, err) ==
    /\ r \in 1 .. Len(runs)
    /\ InFlight(runs[r])
    /\ err \in Failures(runs[r].pc, runs[r].products[runs[r].item])
    /\ runs' = [runs EXCEPT ![r] = Ended(@, "failed", err)]
    /\ error' = Message(prefix \o ErrorMessage(err))
    /\ isLoading' = FALSE
    /\ sceneImage' = runs[r].start
    /\ UNCHANGED <<currentStep, selectedProduct, selectedProducts,
                   isSceneLoading, debugPrompt, finalResult, isResultReady,
                   loads, loadCount>>
    /\ UNCHANGED outsideApp

\* A catch block that reports the failure and lets the loop go on
ApplyFailsAndGoesOn(prefix, r, err) ==
    /\ r \in 1 .. Len(runs)
    /\ InFlight(runs[r])
    /\ err \in Failures(runs[r].pc, runs[r].products[runs[r].item])
    /\ error' = Message(prefix \o ErrorMessage(err))
    /\ UNCHANGED <<currentStep, sceneImage, selectedProduct, selectedProducts,
                   isLoading, isSceneLoading, debugPrompt, finalResult,
                   isResultReady, runs, loads, loadCount>>
    /\ UNCHANGED outsideApp

\* A catch block that goes on as after a success
ApplyFailsAdvancing(prefix, r, err) ==
    /\ r \in 1 .. Len(runs)
    /\ InFlight(runs[r])
    /\ err \in Failures(runs[r].pc, runs[r].products[runs[r].item])
    /\ runs' = [runs EXCEPT ![r] = Ended(@, "failed", err)]
    /\ error' = Message(prefix \o ErrorMessage(err))
    /\ isLoading' = FALSE
    /\ currentStep' = "step3"
    /\ selectedProduct' = Null
    /\ selectedProducts' = << >>
    /\ UNCHANGED <<sceneImage, isSceneLoading, debugPrompt, finalResult,
                   isResultReady, loads, loadCount>>
    /\ UNCHANGED outsideApp

\* A handler without the finally block
ApplyFailsStillLoading(prefix, r, err) ==
    /\ r \in 1 .. Len(runs)
    /\ InFlight(runs[r])
    /\ err \in Failures(runs[r].pc, runs[r].products[runs[r].item])
    /\ runs' = [runs EXCEPT ![r] = Ended(@, "failed", err)]
    /\ error' = Message(prefix \o ErrorMessage(err))
    /\ UNCHANGED <<currentStep, sceneImage, selectedProduct, selectedProducts,
                   isLoading, isSceneLoading, debugPrompt, finalResult,
                   isResultReady, loads, loadCount>>
    /\ UNCHANGED outsideApp

\* An awaited stage rejects, the response is not ok, or the response holds no
\* image part: the catch block of handleApplyProducts sets error, its finally
\* block clears isLoading, and the run is over
ApplyFails(prefix, r, err) ==
    /\ r \in 1 .. Len(runs)
    /\ InFlight(runs[r])
    /\ err \in Failures(runs[r].pc, runs[r].products[runs[r].item])
    /\ runs' = [runs EXCEPT ![r] = Ended(@, "failed", err)]
    /\ error' = Message(prefix \o ErrorMessage(err))
    /\ isLoading' = FALSE
    /\ UNCHANGED <<currentStep, sceneImage, selectedProduct, selectedProducts,
                   isSceneLoading, debugPrompt, finalResult, isResultReady,
                   loads, loadCount>>
    /\ UNCHANGED outsideApp

-----------------------------------------------------------------------------
(* The single-item App                                                      *)

\* renderContent shows the page of a step only while error is null
Rendered(step) == error = Null /\ currentStep = step

\* The step is taken from the URL's step parameter
SingleStart ==
    /\ currentStep \in Steps
    /\ sceneImage = Null
    /\ selectedProduct = Null
    /\ selectedProducts = << >>
    /\ isLoading = FALSE
    /\ isSceneLoading = FALSE
    /\ error = Null
    /\ debugPrompt = Null
    /\ finalResult = Null
    /\ isResultReady = FALSE
    /\ runs = << >>
    /\ loads = {}
    /\ loadCount = 0

\* setCurrentStepWithUrl(step) from a button of the page of step from
Single_GoTo(from, step) ==
    /\ Rendered(from)
    /\ currentStep' = step
    /\ UNCHANGED <<sceneImage, selectedProduct, selectedProducts, isLoading,
                   isSceneLoading, error, debugPrompt, finalResult,
                   isResultReady, runs, loads, loadCount>>
    /\ UNCHANGED outsideApp

Single_handleStartDesign == Single_GoTo("home", "step1")

Single_BackToHome == Single_GoTo("step1", "home")

Single_BackToStep1 == Single_GoTo("step2", "step1")

Single_BackToStep2 == Single_GoTo("step3", "step2")

\* A demo space is clicked: handleInstantStart(space.id)
Single_handleInstantStart == Rendered("step1") /\ StartInstantStart

Single_InstantStartFails(load, err) ==
    InstantStartFails("Could not load demo scene. Details: ", "Living Room 1",
                      load, err)

\* The uploader is shown unless a scene is being processed
Single_handleSceneUpload ==
    /\ Rendered("step1")
    /\ ~isSceneLoading
    /\ StartSceneUpload

\* The product cards are shown until the result is ready
Single_handleProductSelect(product) ==
    /\ Rendered("step2")
    /\ ~isResultReady
    /\ selectedProduct' = product
    /\ UNCHANGED <<currentStep, sceneImage, selectedProducts, isLoading,
                   isSceneLoading, error, debugPrompt, finalResult,
                   isResultReady, runs, loads, loadCount>>
    /\ UNCHANGED outsideApp

\* Clear Selection: setSelectedProduct(null)
Single_ClearSelection ==
    /\ Rendered("step2")
    /\ ~isResultReady
    /\ selectedProduct # Null
    /\ selectedProduct' = Null
    /\ UNCHANGED <<currentStep, sceneImage, selectedProducts, isLoading,
                   isSceneLoading, error, debugPrompt, finalResult,
                   isResultReady, runs, loads, loadCount>>
    /\ UNCHANGED outsideApp

\* A handler that sets isLoading before its checks
Single_handleApplyProductsLoadingFirst ==
    /\ Rendered("step2")
    /\ ~isResultReady
    /\ ~isLoading
    /\ isLoading' = TRUE
    /\ IF sceneImage = Null
       THEN /\ error' = Message("Please upload a scene image first.")
            /\ UNCHANGED runs
       ELSE IF selectedProduct = Null
       THEN /\ error' = Message("Please select a product first.")
            /\ UNCHANGED runs
       ELSE /\ Len(runs) < MaxRuns
            /\ error' = Null
            /\ runs' = WithNewRun(sceneImage, <<selectedProduct>>)
    /\ UNCHANGED <<currentStep, sceneImage, selectedProduct, selectedProducts,
                   isSceneLoading, debugPrompt, finalResult, isResultReady,
                   loads, loadCount>>
    /\ UNCHANGED outsideApp

\* The Apply button (disabled while isLoading): handleApplyProducts up to its
\* first await
Single_handleApplyProducts ==
    /\ Rendered("step2")
    /\ ~isResultReady
    /\ ~isLoading
    /\ IF sceneImage = Null
       THEN /\ error' = Message("Please upload a scene image first.")
            /\ UNCHANGED <<isLoading, runs>>
       ELSE IF selectedProduct = Null
       THEN /\ error' = Message("Please select a product first.")
            /\ UNCHANGED <<isLoading, runs>>
       ELSE /\ Len(runs) < MaxRuns
            /\ isLoading' = TRUE
            /\ error' = Null
            /\ runs' = WithNewRun(sceneImage, <<selectedProduct>>)
    /\ UNCHANGED <<currentStep, sceneImage, selectedProduct, selectedProducts,
                   isSceneLoading, debugPrompt, finalResult, isResultReady,
                   loads, loadCount>>
    /\ UNCHANGED outsideApp

\* response.blob() resolved; generateCompositeImage is called and awaits
\* getImageDimensions(environmentImage)
Single_BlobResolves(r) == StageResolves(r, "blob", "dims")

\* cropToOriginalAspectRatio resolved: generateCompositeImage returns and the
\* handler stores the result
Single_CropResolves(r) ==
    /\ r \in 1 .. Len(runs)
    /\ runs[r].pc = "crop"
    /\ LET finalImage == Composite(runs[r].scene, r, runs[r].item)
       IN  /\ sceneImage' = finalImage
           /\ finalResult' = finalImage
           /\ runs' = [runs EXCEPT ![r] = Ended(@, "done", Null)]
    /\ debugPrompt' = PromptFor(runs[r].products[runs[r].item])
    /\ isResultReady' = TRUE
    /\ currentStep' = "step3"
    /\ isLoading' = FALSE
    /\ UNCHANGED <<selectedProduct, selectedProducts, isSceneLoading, error,
                   loads, loadCount>>
    /\ UNCHANGED outsideApp

Single_ApplyFails(r, err) == ApplyFails("Failed to apply product. ", r, err)

\* Try Again on the error card, Start Over on the result, Start Over on step3
Single_handleReset ==
    /\ \/ error # Null
       \/ currentStep = "step2" /\ isResultReady
       \/ currentStep = "step3"
    /\ currentStep' = "home"
    /\ sceneImage' = Null
    /\ error' = Null
    /\ isLoading' = FALSE
    /\ isSceneLoading' = FALSE
    /\ debugPrompt' = Null
    /\ finalResult' = Null
    /\ isResultReady' = FALSE
    /\ selectedProduct' = Null
    /\ UNCHANGED <<selectedProducts, runs, loads, loadCount>>
    /\ UNCHANGED outsideApp

\* Change Space, shown under the scene until the result is ready
Single_handleChangeScene ==
    /\ Rendered("step2")
    /\ ~isResultReady
    /\ sceneImage' = Null
    /\ currentStep' = "step1"
    /\ debugPrompt' = Null
    /\ UNCHANGED <<selectedProduct, selectedProducts, isLoading, isSceneLoading,
                   error, finalResult, isResultReady, runs, loads, loadCount>>
    /\ UNCHANGED outsideApp

NextSingle ==
    \/ Single_handleStartDesign
    \/ Single_BackToHome
    \/ Single_BackToStep1
    \/ Single_BackToStep2
    \/ Single_handleInstantStart
    \/ Single_handleSceneUpload
    \/ \E load \in loads : SceneUploadCompletes(load)
    \/ \E load \in loads : InstantFetchResolves(load)
    \/ \E load \in loads : InstantBlobResolves(load)
    \/ \E load \in loads :
           \E err \in InstantFailures(load.pc, "Living Room 1") :
               Single_InstantStartFails(load, err)
    \/ \E product \in Catalog : Single_handleProductSelect(product)
    \/ Single_ClearSelection
    \/ Single_handleApplyProducts
    \/ \E r \in 1 .. Len(runs) : FetchResolves(r)
    \/ \E r \in 1 .. Len(runs) : Single_BlobResolves(r)
    \/ \E r \in 1 .. Len(runs) : DimensionsResolve(r)
    \/ \E r \in 1 .. Len(runs) : ProductResized(r)
    \/ \E r \in 1 .. Len(runs) : SceneResized(r)
    \/ \E r \in 1 .. Len(runs) : ProductPartRead(r)
    \/ \E r \in 1 .. Len(runs) : ScenePartRead(r)
    \/ \E r \in 1 .. Len(runs) : GeneratorReturnsImage(r)
    \/ \E r \in 1 .. Len(runs) : Single_CropResolves(r)
    \/ \E r \in 1 .. Len(runs) :
           InFlight(runs[r]) /\
           \E err \in Failures(runs[r].pc, runs[r].products[runs[r].item]) :
               Single_ApplyFails(r, err)
    \/ Single_handleReset
    \/ Single_handleChangeScene

-----------------------------------------------------------------------------
(* The multi-item App                                                       *)

\* setCurrentStep(step) from a button of the page of step from
Multi_GoTo(from, step) ==
    /\ Rendered(from)
    /\ currentStep' = step
    /\ UNCHANGED <<sceneImage, selectedProduct, selectedProducts, isLoading,
                   isSceneLoading, error, debugPrompt, finalResult,
                   isResultReady, runs, loads, loadCount>>
    /\ UNCHANGED outsideApp

Multi_handleStartDesign == Multi_GoTo("home", "step1")

Multi_BackToHome == Multi_GoTo("step1", "home")

Multi_BackToStep1 == Multi_GoTo("step2", "step1")

Multi_BackToStep2 == Multi_GoTo("step3", "step2")

\* The demo link of step1
Multi_handleInstantStart == Rendered("step1") /\ StartInstantStart

Multi_InstantStartFails(load, err) ==
    InstantStartFails("Could not load office scene. Details: ", "office",
                      load, err)

\* The uploader of step1 (hidden while a scene is processed) and the uploader
\* of step3 (hidden while isLoading)
Multi_handleSceneUpload ==
    /\ \/ Rendered("step1") /\ ~isSceneLoading
       \/ Rendered("step3") /\ ~isLoading
    /\ StartSceneUpload

\* prev.filter(p => p.id !== product.id)
Without(products, product) ==
    SelectSeq(products, LAMBDA p : p # product)

\* The product grid of step2 and step3 (pointer-events-none while isLoading):
\* the product is removed if it is selected and added at the end if not
Multi_handleProductSelect(product) ==
    /\ Rendered("step2") \/ Rendered("step3")
    /\ ~isLoading
    /\ selectedProducts' =
           IF \E i \in 1 .. Len(selectedProducts) : selectedProducts[i] = product
           THEN Without(selectedProducts, product)
           ELSE Append(selectedProducts, product)
    /\ UNCHANGED <<currentStep, sceneImage, selectedProduct, isLoading,
                   isSceneLoading, error, debugPrompt, finalResult,
                   isResultReady, runs, loads, loadCount>>
    /\ UNCHANGED outsideApp

\* The Apply button of step2 and step3 (shown when products are selected,
\* disabled while isLoading): handleApplyProducts up to its first await
Multi_handleApplyProducts ==
    /\ Rendered("step2") \/ Rendered("step3")
    /\ selectedProducts # << >>
    /\ ~isLoading
    /\ IF Len(selectedProducts) = 0
       THEN /\ error' = Message("Please select at least one product to apply.")
            /\ UNCHANGED <<isLoading, runs>>
       ELSE IF sceneImage = Null
       THEN /\ error' = Message("Please upload a scene image first.")
            /\ UNCHANGED <<isLoading, runs>>
       ELSE /\ Len(runs) < MaxRuns
            /\ isLoading' = TRUE
            /\ error' = Null
            /\ runs' = WithNewRun(sceneImage, selectedProducts)
    /\ UNCHANGED <<currentStep, sceneImage, selectedProduct, selectedProducts,
                   isSceneLoading, debugPrompt, finalResult, isResultReady,
                   loads, loadCount>>
    /\ UNCHANGED outsideApp

\* placedPositions.push({ ...position, type })
WithPlacement(run) ==
    [run EXCEPT !.placed = Append(@, run.products[run.item].type)]

\* response.blob() resolved: the position of the product is generated and
\* pushed to placedPositions, then generateCompositeImage is called with
\* currentSceneImage and awaits the scene's dimensions
Multi_BlobResolves(r) ==
    /\ r \in 1 .. Len(runs)
    /\ runs[r].pc = "blob"
    /\ runs' = [runs EXCEPT ![r] =
           StartStage(WithPlacement(@), @.item, "dims")]
    /\ UNCHANGED <<currentStep, sceneImage, selectedProduct, selectedProducts,
                   isLoading, isSceneLoading, error, debugPrompt, finalResult,
                   isResultReady, loads, loadCount>>
    /\ UNCHANGED outsideApp

\* A loop that does not assign currentSceneImage
WithoutComposite(run, r) == run

\* The run with the composite of its current item as currentSceneImage
WithComposite(run, r) ==
    [run EXCEPT !.scene = Composite(run.scene, r, run.item)]

\* cropToOriginalAspectRatio resolved: the final image of the item becomes
\* currentSceneImage and the scene of the App; the loop goes on to the next
\* product, or the run ends on step3 with the selection cleared
Multi_CropResolves(r) ==
    /\ r \in 1 .. Len(runs)
    /\ runs[r].pc = "crop"
    /\ sceneImage' = Composite(runs[r].scene, r, runs[r].item)
    /\ IF runs[r].item < Len(runs[r].products)
       THEN /\ runs' = [runs EXCEPT ![r] =
                   StartStage(WithComposite(@, r), @.item + 1, "fetch")]
            /\ UNCHANGED <<selectedProducts, currentStep, isLoading>>
       ELSE /\ runs' = [runs EXCEPT ![r] = Ended(@, "done", Null)]
            /\ selectedProducts' = << >>
            /\ currentStep' = "step3"
            /\ isLoading' = FALSE
    /\ UNCHANGED <<selectedProduct, isSceneLoading, error, debugPrompt,
                   finalResult, isResultReady, loads, loadCount>>
    /\ UNCHANGED outsideApp

Multi_ApplyFails(r, err) == ApplyFails("Failed to apply products. ", r, err)

\* Try Again on the error card
Multi_handleReset ==
    /\ error # Null
    /\ currentStep' = "home"
    /\ selectedProducts' = << >>
    /\ sceneImage' = Null
    /\ error' = Null
    /\ isLoading' = FALSE
    /\ isSceneLoading' = FALSE
    /\ debugPrompt' = Null
    /\ UNCHANGED <<selectedProduct, finalResult, isResultReady, runs, loads,
                   loadCount>>
    /\ UNCHANGED outsideApp

\* Change Space of step2; Change Scene of step3 (hidden while isLoading, shown
\* when there is a scene)
Multi_handleChangeScene ==
    /\ \/ Rendered("step2")
       \/ Rendered("step3") /\ ~isLoading /\ sceneImage # Null
    /\ sceneImage' = Null
    /\ currentStep' = "step1"
    /\ debugPrompt' = Null
    /\ UNCHANGED <<selectedProduct, selectedProducts, isLoading, isSceneLoading,
                   error, finalResult, isResultReady, runs, loads, loadCount>>
    /\ UNCHANGED outsideApp

NextMulti ==
    \/ Multi_handleStartDesign
    \/ Multi_BackToHome
    \/ Multi_BackToStep1
    \/ Multi_BackToStep2
    \/ Multi_handleInstantStart
    \/ Multi_handleSceneUpload
    \/ \E load \in loads : SceneUploadCompletes(load)
    \/ \E load \in loads : InstantFetchResolves(load)
    \/ \E load \in loads : InstantBlobResolves(load)
    \/ \E load \in loads :
           \E err \in InstantFailures(load.pc, "office") :
               Multi_InstantStartFails(load, err)
    \/ \E product \in Catalog : Multi_handleProductSelect(product)
    \/ Multi_handleApplyProducts
    \/ \E r \in 1 .. Len(runs) : FetchResolves(r)
    \/ \E r \in 1 .. Len(runs) : Multi_BlobResolves(r)
    \/ \E r \in 1 .. Len(runs) : DimensionsResolve(r)
    \/ \E r \in 1 .. Len(runs) : ProductResized(r)
    \/ \E r \in 1 .. Len(runs) : SceneResized(r)
    \/ \E r \in 1 .. Len(runs) : ProductPartRead(r)
    \/ \E r \in 1 .. Len(runs) : ScenePartRead(r)
    \/ \E r \in 1 .. Len(runs) : GeneratorReturnsImage(r)
    \/ \E r \in 1 .. Len(runs) : Multi_CropResolves(r)
    \/ \E r \in 1 .. Len(runs) :
           InFlight(runs[r]) /\
           \E err \in Failures(runs[r].pc, runs[r].products[runs[r].item]) :
               Multi_ApplyFails(r, err)
    \/ Multi_handleReset
    \/ Multi_handleChangeScene

-----------------------------------------------------------------------------
(* getPlacementInstructions                                                 *)
(* A size is held as the list of its characters, so that toLowerCase is     *)
(* computed character by character.                                         *)

UpperLetters ==
    <<"A", "B", "C", "D", "E", "F", "G", "H", "I", "J", "K", "L", "M",
       "N", "O", "P", "Q", "R", "S", "T", "U", "V", "W", "X", "Y", "Z">>

LowerLetters ==
    <<"a", "b", "c", "d", "e", "f", "g", "h", "i", "j", "k", "l", "m",
       "n", "o", "p", "q", "r", "s", "t", "u", "v", "w", "x", "y", "z">>

LetterIndex(letters, c) == CHOOSE i \in 1 .. Len(letters) : letters[i] = c

IsOneOf(letters, c) == \E i \in 1 .. Len(letters) : letters[i] = c

\* A comparison of the size as it is written
SameCase(size) == size

\* size.toLowerCase()
ToLowerCase(size) ==
    [i \in 1 .. Len(size) |->
        IF IsOneOf(UpperLetters, size[i])
        THEN LowerLetters[LetterIndex(UpperLetters, size[i])]
        ELSE size[i]]

ToUpperCase(size) ==
    [i \in 1 .. Len(size) |->
        IF IsOneOf(LowerLetters, size[i])
        THEN UpperLetters[LetterIndex(LowerLetters, size[i])]
        ELSE size[i]]

Capitalized(size) ==
    IF size = << >> THEN size ELSE ToUpperCase(<<size[1]>>) \o Tail(size)

SizeSmall == <<"s", "m", "a", "l", "l">>

SizeMedium == <<"m", "e", "d", "i", "u", "m">>

SizeLarge == <<"l", "a", "r", "g", "e">>

SizeHuge == <<"h", "u", "g", "e">>

TileRule ==
    "Place the gallery wall (3-4 pictures arranged together) on a wall surface in the room. Look for empty wall spaces, above furniture like sofas or beds, in hallways, or on feature walls. Position it at eye level (typically 57-60 inches from the floor) and ensure it complements the room's existing decor and color scheme. The gallery wall should be properly sized and oriented for the wall space, maintaining the same shape and arrangement of the 3-4 pictures together."

SmallRule ==
    "Place the plant on elevated surfaces like desks, tables, shelves, or countertops where there is reasonable space. Choose locations that make sense for small plants - near windows, on side tables, or on work surfaces."

MediumRule ==
    "Place the plant on the floor near furniture, in corners, or on larger surfaces like coffee tables or dining tables. Position it where it complements the existing furniture without blocking walkways."

LargeRule ==
    "Place the plant on the floor in open spaces, corners, or as a focal point in the room. Ensure it has enough space around it and doesn't obstruct movement or block important views."

HugeRule ==
    "Place the plant on the floor in large open areas where it can serve as a statement piece. Position it in corners, near windows, or as a room divider. Make sure it has plenty of space and doesn't overwhelm the room."

DefaultRule ==
    "Place the plant in a logical location that makes sense for its size and the room layout."

\* getPlacementInstructions(type, size)
getPlacementInstructions(type, size) ==
    IF type = "tile" THEN TileRule
    ELSE CASE ToLowerCase(size) = SizeSmall -> SmallRule
           [] ToLowerCase(size) = SizeMedium -> MediumRule
           [] ToLowerCase(size) = SizeLarge -> LargeRule
           [] ToLowerCase(size) = SizeHuge -> HugeRule
           [] OTHER -> DefaultRule

\* The plants of the single-item App's catalog
PLANT_ASSETS ==
    { [name |-> "Anthurium Red", size |-> <<"s", "m">>],
      [name |-> "Snake Plant", size |-> <<"s", "m">>],
      [name |-> "Pothos", size |-> <<"s", "m">>],
      [name |-> "Fiddle Leaf Fig", size |-> <<"l", "g">>],
      [name |-> "Money Tree", size |-> <<"m", "d">>] }

MIXTILES_PRODUCTS == { [name |-> "Paris, France"], [name |-> "Italy, Amalfi Coast"] }

SizeGalleryWall == <<"g", "a", "l", "l", "e", "r", "y", "-", "w", "a", "l", "l">>

\* Every product the single-item App lets the user select
ALL_PRODUCTS ==
    { [name |-> plant.name, size |-> plant.size, type |-> "plant"] :
          plant \in PLANT_ASSETS }
    \cup { [name |-> tile.name, size |-> SizeGalleryWall, type |-> "tile"] :
              tile \in MIXTILES_PRODUCTS }

\* Sizes a caller may pass: the size classes, the sizes of the catalog, an
\* unknown word and the empty string, each as written, in capitals and
\* capitalized
SizeWords ==
    { SizeSmall, SizeMedium, SizeLarge, SizeHuge, SizeGalleryWall, << >>,
      <<"s", "m">>, <<"m", "d">>, <<"l", "g">>, <<"t", "i", "n", "y">> }

SizeStrings ==
    UNION { {word, ToUpperCase(word), Capitalized(word)} : word \in SizeWords }

NoProduct == [name |-> "", size |-> << >>, type |-> ""]

RuleIdle ==
    /\ productType = "plant"
    /\ productSize = << >>
    /\ pcRule = "idle"
    /\ instructions = ""
    /\ ruleProduct = NoProduct

\* generateCompositeImage is called with some type and size
RuleStart ==
    /\ productType \in {"plant", "tile"}
    /\ productSize \in SizeStrings
    /\ pcRule = "called"
    /\ instructions = ""
    /\ ruleProduct = NoProduct

\* ${getPlacementInstructions(productType, productSize)} in the prompt
BuildInstructions ==
    /\ pcRule = "called"
    /\ instructions' = getPlacementInstructions(productType, productSize)
    /\ pcRule' = "returned"
    /\ UNCHANGED <<productType, productSize, ruleProduct>>
    /\ UNCHANGED outsideRule

\* handleApplyProducts calls generateCompositeImage with the size and the
\* type of the selected product
CallWithSelectedProduct(product) ==
    /\ pcRule = "returned"
    /\ ruleProduct' = product
    /\ productType' = product.type
    /\ productSize' = product.size
    /\ instructions' = ""
    /\ pcRule' = "called"
    /\ UNCHANGED outsideRule

NextRule ==
    \/ BuildInstructions
    \/ \E product \in ALL_PRODUCTS : CallWithSelectedProduct(product)

-----------------------------------------------------------------------------
(* The App with scene analysis (src/App.tsx)                                *)

\* The user selects among the first MaxSelectable plants of the catalog.
MaxSelectable == 2

\* The catalog of src/constants/products.ts: no plant carries a size
PLANT_PRODUCTS ==
    << [id |-> 1, name |-> "Anthurium Red", size |-> "undefined"],
       [id |-> 2, name |-> "Parlor Palm", size |-> "undefined"],
       [id |-> 3, name |-> "Money Tree", size |-> "undefined"],
       [id |-> 4, name |-> "Snake Plant", size |-> "undefined"],
       [id |-> 5, name |-> "Pothos", size |-> "undefined"] >>

\* What analyzeSceneForPlantPlacement resolves with: the three fields the App
\* reads
AnalysisResults ==
    { [recommendedSize |-> size,
       placementPosition |-> [xPercent |-> x, yPercent |-> 80],
       reasoning |-> "near the window"] :
         size \in {"small", "medium"}, x \in {30, 50} }

\* What analyzeSceneForPlantPlacement rejects with
AnalysisFailures == { Thrown("Internal error encountered."), NotAnError }

\* PLANT_PRODUCTS.filter(plant => plant.size === size)
PlantsOfSize(size) ==
    SelectSeq(PLANT_PRODUCTS, LAMBDA plant : plant.size = size)

\* availablePlants[Math.floor(Math.random() * availablePlants.length)]
\*     || PLANT_PRODUCTS[0]
OptimalPlants(size) ==
    IF PlantsOfSize(size) = << >>
    THEN { PLANT_PRODUCTS[1] }
    ELSE { PlantsOfSize(size)[i] : i \in 1 .. Len(PlantsOfSize(size)) }

\* PLANT_PRODUCTS.find(p => p.size === 'medium') || PLANT_PRODUCTS[0]
DefaultPlant ==
    IF PlantsOfSize("medium") = << >>
    THEN PLANT_PRODUCTS[1]
    ELSE PlantsOfSize("medium")[1]

DefaultPosition == [xPercent |-> 50, yPercent |-> 70]

DefaultReasoning == "Analysis failed, using default placement"

\* A handleApplyProducts call that has passed its check and awaits the analysis
AutoRun(scene, selected) ==
    [ pc        |-> "analyze",
      manual    |-> selected # Null,
      plant     |-> selected,
      position  |-> Null,
      reasoning |-> "",
      scene     |-> scene,
      thrown    |-> Null ]

\* The call has returned
AutoEnded(run, pc, thrown) ==
    [ pc        |-> pc,
      manual    |-> run.manual,
      plant     |-> Null,
      position  |-> Null,
      reasoning |-> "",
      scene     |-> Null,
      thrown    |-> thrown ]

\* What the handler can catch after the analysis
AutoFailures(pc, plant) ==
    CASE pc = "fetch" ->
             { Thrown("Failed to fetch"),
               Thrown("Failed to load plant image for " \o plant.name) }
      [] pc = "blob" -> { Thrown("Failed to fetch") }
      [] pc = "compose" ->
             { Thrown("Internal error encountered."), Thrown(NoImageMessage) }
      [] OTHER -> {}

Auto_handleStartDesign == Single_GoTo("home", "step1")

Auto_BackToHome == Single_GoTo("step1", "home")

Auto_BackToStep1 == Single_GoTo("step2", "step1")

Auto_BackToStep2 == Single_GoTo("step3", "step2")

Auto_handleInstantStart == Rendered("step1") /\ StartInstantStart

Auto_InstantStartFails(load, err) ==
    InstantStartFails("Could not load demo scene. Details: ", "Living Room 1",
                      load, err)

\* The uploader of step1 (unless a scene is being processed) and of step3
\* (unless products are being applied)
Auto_handleSceneUpload ==
    /\ \/ Rendered("step1") /\ ~isSceneLoading
       \/ Rendered("step3") /\ ~isLoading
    /\ StartSceneUpload

\* handlePlantSelect(product); Clear Selection when plant is null
Auto_handlePlantSelect(plant) ==
    /\ Rendered("step2")
    /\ plant # selectedProduct
    /\ plant = Null => selectedProduct # Null
    /\ selectedProduct' = plant
    /\ UNCHANGED <<currentStep, sceneImage, selectedProducts, isLoading,
                   isSceneLoading, error, debugPrompt, finalResult,
                   isResultReady, runs, loads, loadCount>>
    /\ UNCHANGED outsideApp

\* The Apply buttons of step2 and step3 (disabled while isLoading):
\* handleApplyProducts up to its first await
Auto_handleApplyProducts ==
    /\ Rendered("step2") \/ Rendered("step3")
    /\ ~isLoading
    /\ IF sceneImage = Null
       THEN /\ error' = Message("Please upload a scene image first.")
            /\ UNCHANGED <<isLoading, runs>>
       ELSE /\ Len(runs) < MaxRuns
            /\ isLoading' = TRUE
            /\ error' = Null
            /\ runs' = Append(runs, AutoRun(sceneImage, selectedProduct))
    /\ UNCHANGED <<currentStep, sceneImage, selectedProduct, selectedProducts,
                   isSceneLoading, debugPrompt, finalResult, isResultReady,
                   loads, loadCount>>
    /\ UNCHANGED outsideApp

\* The run goes on to fetch the image of the plant
AutoPlaced(run, plant, place, reasoning) ==
    [run EXCEPT !.pc = "fetch", !.plant = plant, !.position = place,
                !.reasoning = reasoning]

\* analyzeSceneForPlantPlacement resolved: the selected plant gets the analysed
\* position; without a selection getOptimalPlantPlacement picks a plant of the
\* recommended size
Auto_AnalysisResolves(r, analysis, picked) ==
    /\ r \in 1 .. Len(runs)
    /\ runs[r].pc = "analyze"
    /\ picked \in OptimalPlants(analysis.recommendedSize)
    /\ runs' = [runs EXCEPT ![r] =
           IF @.manual
           THEN AutoPlaced(@, @.plant, analysis.placementPosition,
                           "Using selected " \o @.plant.name \o " - "
                               \o analysis.reasoning)
           ELSE AutoPlaced(@, picked, analysis.placementPosition,
                           analysis.reasoning)]
    /\ UNCHANGED <<currentStep, sceneImage, selectedProduct, selectedProducts,
                   isLoading, isSceneLoading, error, debugPrompt, finalResult,
                   isResultReady, loads, loadCount>>
    /\ UNCHANGED outsideApp

\* analyzeSceneForPlantPlacement rejected: getOptimalPlantPlacement catches
\* the failure and returns the default placement; the call made for a
\* selected plant is caught by the handler, which sets error and clears
\* isLoading
Auto_AnalysisFails(r, err) ==
    /\ r \in 1 .. Len(runs)
    /\ runs[r].pc = "analyze"
    /\ err \in AnalysisFailures
    /\ IF runs[r].manual
       THEN /\ runs' = [runs EXCEPT ![r] = AutoEnded(@, "failed", err)]
            /\ error' = Message("Failed to apply plant. " \o ErrorMessage(err))
            /\ isLoading' = FALSE
       ELSE /\ runs' = [runs EXCEPT ![r] =
                   AutoPlaced(@, DefaultPlant, DefaultPosition, DefaultReasoning)]
            /\ UNCHANGED <<error, isLoading>>
    /\ UNCHANGED <<currentStep, sceneImage, selectedProduct, selectedProducts,
                   isSceneLoading, debugPrompt, finalResult, isResultReady,
                   loads, loadCount>>
    /\ UNCHANGED outsideApp

\* fetch(plant.imageUrl) resolved with an ok response, then response.blob();
\* generateCompositeImage is called with the plant and the position
Auto_StageResolves(r, stage, next) ==
    /\ r \in 1 .. Len(runs)
    /\ runs[r].pc = stage
    /\ runs' = [runs EXCEPT ![r].pc = next]
    /\ UNCHANGED <<currentStep, sceneImage, selectedProduct, selectedProducts,
                   isLoading, isSceneLoading, error, debugPrompt, finalResult,
                   isResultReady, loads, loadCount>>
    /\ UNCHANGED outsideApp

\* generateCompositeImage resolved: the composite becomes the scene, step3
Auto_ComposeResolves(r) ==
    /\ r \in 1 .. Len(runs)
    /\ runs[r].pc = "compose"
    /\ sceneImage' = Composite(runs[r].scene, r, 1)
    /\ currentStep' = "step3"
    /\ isLoading' = FALSE
    /\ runs' = [runs EXCEPT ![r] = AutoEnded(@, "done", Null)]
    /\ UNCHANGED <<selectedProduct, selectedProducts, isSceneLoading, error,
                   debugPrompt, finalResult, isResultReady, loads, loadCount>>
    /\ UNCHANGED outsideApp

\* The catch and finally blocks of handleApplyProducts
Auto_ApplyFails(r, err) ==
    /\ r \in 1 .. Len(runs)
    /\ err \in AutoFailures(runs[r].pc, runs[r].plant)
    /\ runs' = [runs EXCEPT ![r] = AutoEnded(@, "failed", err)]
    /\ error' = Message("Failed to apply plant. " \o ErrorMessage(err))
    /\ isLoading' = FALSE
    /\ UNCHANGED <<currentStep, sceneImage, selectedProduct, selectedProducts,
                   isSceneLoading, debugPrompt, finalResult, isResultReady,
                   loads, loadCount>>
    /\ UNCHANGED outsideApp

\* Try Again on the error card
Auto_handleReset ==
    /\ error # Null
    /\ currentStep' = "home"
    /\ sceneImage' = Null
    /\ error' = Null
    /\ isLoading' = FALSE
    /\ isSceneLoading' = FALSE
    /\ debugPrompt' = Null
    /\ UNCHANGED <<selectedProduct, selectedProducts, finalResult,
                   isResultReady, runs, loads, loadCount>>
    /\ UNCHANGED outsideApp

\* Change Space of step2; Change Scene of step3 (hidden while isLoading, shown
\* when there is a scene)
Auto_handleChangeScene ==
    /\ \/ Rendered("step2")
       \/ Rendered("step3") /\ ~isLoading /\ sceneImage # Null
    /\ sceneImage' = Null
    /\ currentStep' = "step1"
    /\ debugPrompt' = Null
    /\ UNCHANGED <<selectedProduct, selectedProducts, isLoading, isSceneLoading,
                   error, finalResult, isResultReady, runs, loads, loadCount>>
    /\ UNCHANGED outsideApp

NextAuto ==
    \/ Auto_handleStartDesign
    \/ Auto_BackToHome
    \/ Auto_BackToStep1
    \/ Auto_BackToStep2
    \/ Auto_handleInstantStart
    \/ Auto_handleSceneUpload
    \/ \E load \in loads : SceneUploadCompletes(load)
    \/ \E load \in loads : InstantFetchResolves(load)
    \/ \E load \in loads : InstantBlobResolves(load)
    \/ \E load \in loads :
           \E err \in InstantFailures(load.pc, "Living Room 1") :
               Auto_InstantStartFails(load, err)
    \/ \E i \in 1 .. MaxSelectable : Auto_handlePlantSelect(PLANT_PRODUCTS[i])
    \/ Auto_handlePlantSelect(Null)
    \/ Auto_handleApplyProducts
    \/ \E r \in 1 .. Len(runs) :
           \E analysis \in AnalysisResults :
               \E picked \in OptimalPlants(analysis.recommendedSize) :
                   Auto_AnalysisResolves(r, analysis, picked)
    \/ \E r \in 1 .. Len(runs) :
           \E err \in AnalysisFailures : Auto_AnalysisFails(r, err)
    \/ \E r \in 1 .. Len(runs) : Auto_StageResolves(r, "fetch", "blob")
    \/ \E r \in 1 .. Len(runs) : Auto_StageResolves(r, "blob", "compose")
    \/ \E r \in 1 .. Len(runs) : Auto_ComposeResolves(r)
    \/ \E r \in 1 .. Len(runs) :
           \E err \in AutoFailures(runs[r].pc, runs[r].plant) :
               Auto_ApplyFails(r, err)
    \/ Auto_handleReset
    \/ Auto_handleChangeScene

-----------------------------------------------------------------------------
(* Specifications *)

InitPlace == PlaceIdle /\ GeoIdle /\ AppIdle /\ RuleIdle

InitGeo == GeoStart /\ PlaceIdle /\ AppIdle /\ RuleIdle

SpecPlace == InitPlace /\ [][NextPlace]_vars

SpecGeo == InitGeo /\ [][NextGeo]_vars

InitSingle == SingleStart /\ PlaceIdle /\ GeoIdle /\ RuleIdle

SpecSingle == InitSingle /\ [][NextSingle]_vars

\* An awaited call of run r settles: it resolves, or it rejects
Single_Settles(r) ==
    \/ FetchResolves(r)
    \/ Single_BlobResolves(r)
    \/ DimensionsResolve(r)
    \/ ProductResized(r)
    \/ SceneResized(r)
    \/ ProductPartRead(r)
    \/ ScenePartRead(r)
    \/ GeneratorReturnsImage(r)
    \/ Single_CropResolves(r)
    \/ InFlight(runs[r]) /\
       \E err \in Failures(runs[r].pc, runs[r].products[runs[r].item]) :
           Single_ApplyFails(r, err)

\* The single-item App when no awaited call of a run stays pending for ever
SpecSingleFair ==
    /\ InitSingle
    /\ [][NextSingle]_vars
    /\ \A r \in 1 .. MaxRuns : WF_vars(r <= Len(runs) /\ Single_Settles(r))

InitMulti == AppIdle /\ PlaceIdle /\ GeoIdle /\ RuleIdle

SpecMulti == InitMulti /\ [][NextMulti]_vars

\* The App with scene analysis takes its first step from the URL too
InitAuto == SingleStart /\ PlaceIdle /\ GeoIdle /\ RuleIdle

SpecAuto == InitAuto /\ [][NextAuto]_vars

InitRule == RuleStart /\ PlaceIdle /\ GeoIdle /\ AppIdle

SpecRule == InitRule /\ [][NextRule]_vars

-----------------------------------------------------------------------------
(* Placement claims *)

SeparatedFromPlaced(p) ==
    \A i \in 1 .. Len(placedPositions) :
        SqDistance(p, placedPositions[i]) >= MinDistanceSq

C2_AtMostFiftyAttempts ==
    /\ draws <= maxAttempts
    /\ attempt <= maxAttempts
    /\ pcPlace = "loop" => draws = attempt
    /\ pcPlace = "loop" =>
          \/ attempt = maxAttempts
          \/ \E ka, kx, ky \in RandomOutcomes : ENABLED LoopAttempt(ka, kx, ky)
    /\ (pcPlace = "loop" /\ attempt = maxAttempts) => ENABLED LoopExhausted
    /\ pcPlace = "returnedFallback" =>
          /\ draws = maxAttempts
          /\ position = FallbackPosition(isTile, placedPositions)
    /\ pcPlace = "returnedLoop" => draws = attempt + 1

\* C2 witness: a call whose every draw collided has returned the fallback.
C2_Witness ==
    /\ pcPlace = "returnedFallback"
    /\ draws = maxAttempts
    /\ placedPositions # << >>

-----------------------------------------------------------------------------
(* Geometry claims *)

Abs(n) == IF n < 0 THEN -n ELSE n

Max(a, b) == IF a > b THEN a ELSE b

\* C3: the rectangle the crop extracts is the rectangle resizeImage drew, and
\* the cropped width and height have the source's aspect ratio to within one
\* pixel on the shorter side.
C3_CropUndoesResize ==
    pcGeo = "restored" =>
        /\ cropped = drawn
        /\ cropped = ResizeRect(originalWidth, originalHeight, targetDimension)
        /\ Abs(outWidth * originalHeight - outHeight * originalWidth)
               <= Max(originalWidth, originalHeight)

\* C3 witness: a landscape scene has been normalized and cropped back to a
\* height below the target dimension.
C3_Witness ==
    /\ pcGeo = "restored"
    /\ originalWidth > originalHeight
    /\ outWidth = targetDimension
    /\ 0 < outHeight
    /\ outHeight < targetDimension
    /\ ~DoubleIsZero(cropped.y)

OffsetsNonNegative(rect) ==
    /\ ~DoubleIsNegative(rect.x)
    /\ ~DoubleIsNegative(rect.y)

\* C4 as stated: both offsets are >= 0 and exactly one of them is 0, for
\* landscape, portrait and square sources alike.
C4_ExactlyOneOffsetZero ==
    pcGeo = "normalized" =>
        /\ OffsetsNonNegative(drawn)
        /\ DoubleIsZero(drawn.x) # DoubleIsZero(drawn.y)

\* C4 amended: both offsets are >= 0 and at least one of them is 0; exactly
\* one is 0 when the source is not square (x for landscape, y for portrait),
\* and both are 0 when it is square.
C4_OffsetsCentered ==
    pcGeo = "normalized" =>
        /\ OffsetsNonNegative(drawn)
        /\ DoubleIsZero(drawn.x) \/ DoubleIsZero(drawn.y)
        /\ imgWidth > imgHeight => (DoubleIsZero(drawn.x) /\ ~DoubleIsZero(drawn.y))
        /\ imgWidth < imgHeight => (~DoubleIsZero(drawn.x) /\ DoubleIsZero(drawn.y))
        /\ imgWidth = imgHeight => (DoubleIsZero(drawn.x) /\ DoubleIsZero(drawn.y))

\* C4 witness: a square source has been drawn with both offsets 0.
C4_Witness ==
    /\ pcGeo = "normalized"
    /\ imgWidth = imgHeight
    /\ DoubleIsZero(drawn.x)
    /\ DoubleIsZero(drawn.y)

-----------------------------------------------------------------------------
(* Claims on the single-item App *)

\* The step in which run r handles a response without an image part
NoImageFailure(r) ==
    /\ runs[r].pc = "generate"
    /\ runs'[r].pc = "failed"
    /\ runs'[r].thrown = Thrown(NoImageMessage)

\* C5: a response without an image part makes generateCompositeImage throw
\* the 'did not return an image' error and return nothing: the crop is not
\* started and no result is stored.  The step of handleApplyProducts that
\* handles the failure sets the error message and leaves the scene image as
\* it was, as does every earlier step of the call, so a scene that was the
\* one of the call is still that scene.
C5_NoImageFailureKeepsScene ==
    [][ \A r \in 1 .. Len(runs) :
          /\ NoImageFailure(r) =>
                /\ error' = Message("Failed to apply product. " \o NoImageMessage)
                /\ sceneImage' = sceneImage
                /\ sceneImage = runs[r].start => sceneImage' = runs[r].start
                /\ finalResult' = finalResult
                /\ isResultReady' = isResultReady
                /\ currentStep' = currentStep
                /\ runs'[r].log = runs[r].log
                /\ ~isLoading'
          /\ (InFlight(runs[r]) /\ runs'[r] # runs[r] /\ runs'[r].pc # "done")
                => sceneImage' = sceneImage
      ]_vars

\* C5 witness: the failure of a call on an uploaded scene has been handled;
\* the upload is still the scene and the error is shown.
C5_Witness ==
    \E r \in 1 .. Len(runs) :
        /\ runs[r].pc = "failed"
        /\ runs[r].thrown = Thrown(NoImageMessage)
        /\ runs[r].log[Len(runs[r].log)] = <<1, "generate">>
        /\ error = Message("Failed to apply product. " \o NoImageMessage)
        /\ sceneImage # Null
        /\ sceneImage.layers = << >>
        /\ finalResult = Null
        /\ ~isLoading

\* The user has left the composition of the run: the page is no longer step2
\* or the scene is no longer the one the run was called on
Abandoned(run) == currentStep # "step2" \/ sceneImage # run.start

\* C9 as stated: when the call of an abandoned composition resolves, the
\* scene image, the final result and the step stay as they are.
C9_AbandonedResultDiscarded ==
    [][ \A r \in 1 .. Len(runs) :
          (runs[r].pc = "crop" /\ runs'[r].pc = "done" /\ Abandoned(runs[r]))
              => /\ sceneImage' = sceneImage
                 /\ finalResult' = finalResult
                 /\ currentStep' = currentStep
      ]_vars

-----------------------------------------------------------------------------
(* Claims on the multi-item App *)

\* The scene after the first n items of run r have been composited onto it
Chain(scene, r, n) ==
    [base |-> scene.base,
     layers |-> scene.layers \o [i \in 1 .. n |-> <<r, i>>]]

\* The run whose composite the image is; 0 for null and for an upload
WrittenBy(image) ==
    IF image = Null \/ image.layers = << >>
    THEN 0
    ELSE image.layers[Len(image.layers)][1]

\* The step in which run r fails
FailureOf(r) == InFlight(runs[r]) /\ runs'[r].pc = "failed"

\* The step in which run r stores the final image of an item
StoreBy(r) == runs[r].pc = "crop" /\ runs'[r].pc \notin {"crop", "failed"}

\* C6: when item k of a run fails at any stage, the failure handling leaves
\* the scene image alone and item k's output is not stored; what the run has
\* stored are the composites of items 1..k-1 in turn, so a scene that is the
\* run's own is the composite of item k-1, and with k = 1 the run has stored
\* nothing.
C6_FailureKeepsLastComposite ==
    [][ \A r \in 1 .. Len(runs) :
          /\ FailureOf(r) =>
                /\ sceneImage' = sceneImage
                /\ sceneImage' # Composite(runs[r].scene, r, runs[r].item)
                /\ runs[r].scene = Chain(runs[r].start, r, runs[r].item - 1)
                /\ WrittenBy(sceneImage') = r =>
                      /\ runs[r].item > 1
                      /\ sceneImage' = Chain(runs[r].start, r, runs[r].item - 1)
                /\ (runs[r].item = 1 /\ sceneImage = runs[r].start)
                      => sceneImage' = runs[r].start
          /\ StoreBy(r) =>
                sceneImage' = Chain(runs[r].start, r, runs[r].item)
      ]_vars

\* C6 witness: the second item of a run has failed and the scene is the
\* composite of its first item.
C6_Witness ==
    \E r \in 1 .. Len(runs) :
        /\ runs[r].pc = "failed"
        /\ runs[r].item = 2
        /\ sceneImage # Null
        /\ sceneImage.layers = << <<r, 1>> >>
        /\ error # Null
        /\ ~isLoading

\* Index of a stage in the program order of an item
StageIndex(stage) == CHOOSE i \in 1 .. Len(Stages) : Stages[i] = stage

\* The stages a run has started when it is in the given stage of the given
\* item, if every item runs its stages in order and after the item before
ExpectedLog(item, stage) ==
    [n \in 1 .. ((item - 1) * Len(Stages) + StageIndex(stage)) |->
        <<((n - 1) \div Len(Stages)) + 1, Stages[((n - 1) % Len(Stages)) + 1]>>]

\* C7: the stages of a run are started in program order, item after item, no
\* stage of item N+1 before the crop of item N has resolved; and the scene
\* the pipeline is given for item N+1 is the final image of item N, that of
\* item 1 is the scene of the App when the run was called.
C7_ItemsStrictlySequential ==
    \A r \in 1 .. Len(runs) :
        InFlight(runs[r]) =>
            /\ runs[r].log = ExpectedLog(runs[r].item, runs[r].pc)
            /\ runs[r].scene = Chain(runs[r].start, r, runs[r].item - 1)
            /\ runs[r].item = 1 => runs[r].scene = runs[r].start
            /\ runs[r].item > 1 =>
                  runs[r].scene =
                      Composite(Chain(runs[r].start, r, runs[r].item - 2), r,
                                runs[r].item - 1)

\* C7 witness: the generator is working on the second item of a run, on the
\* final image of the first.
C7_Witness ==
    \E r \in 1 .. Len(runs) :
        /\ runs[r].pc = "generate"
        /\ runs[r].item = 2
        /\ runs[r].scene = Composite(runs[r].start, r, 1)
        /\ sceneImage = runs[r].scene

\* Everything handleApplyProducts can catch
AllFailures ==
    UNION { Failures(Stages[i], product) : i \in 1 .. Len(Stages), product \in Catalog }

\* C8: a run that failed in a stage has started no stage after it (no
\* generator call after a failed normalization, no crop after a failed
\* generator call, no later item) and starts none later; the failing step
\* returns no image; and whenever the error of a failed run is shown, a run
\* has ended with it.
C8_FailureAbortsRemainingStages ==
    [][ /\ \A r \in 1 .. Len(runs) :
              /\ FailureOf(r) =>
                    /\ runs'[r].log = runs[r].log
                    /\ runs'[r].log = ExpectedLog(runs[r].item, runs[r].pc)
                    /\ runs'[r].thrown \in
                           Failures(runs[r].pc, runs[r].products[runs[r].item])
                    /\ sceneImage' = sceneImage
                    /\ currentStep' = currentStep
              /\ runs[r].pc = "failed" => runs'[r] = runs[r]
        /\ \A err \in AllFailures :
              error' = Message("Failed to apply products. " \o ErrorMessage(err))
                  => \E r \in 1 .. Len(runs') :
                         /\ runs'[r].pc = "failed"
                         /\ ErrorMessage(runs'[r].thrown) = ErrorMessage(err)
      ]_vars

\* C8 witness: the first item of a run of two products failed while its scene
\* was normalized: no generator call, no second item, the selection kept.
C8_Witness ==
    \E r \in 1 .. Len(runs) :
        /\ runs[r].pc = "failed"
        /\ runs[r].log = ExpectedLog(1, "resizeScene")
        /\ Len(selectedProducts) = 2
        /\ error # Null

\* C10 as stated: a run never stores its image over a scene image written by
\* a run that overlapped it, and no run is called on a scene image written by
\* a run that is still in flight.
C10_RunsShareNoScene ==
    [][ /\ \A r \in 1 .. Len(runs) :
              StoreBy(r) => WrittenBy(sceneImage) \notin runs[r].overlap
        /\ Len(runs') > Len(runs) =>
              \A q \in 1 .. Len(runs) :
                  InFlight(runs[q]) => WrittenBy(sceneImage) # q
      ]_vars

-----------------------------------------------------------------------------
(* More claims on generateSmartPosition *)

\* p lies in the rectangle [xLo, xHi] x [yLo, yHi], given in percent
InRectangle(p, xLo, xHi, yLo, yHi) ==
    /\ Scaled(xLo) <= p.xPercent /\ p.xPercent <= Scaled(xHi)
    /\ Scaled(yLo) <= p.yPercent /\ p.yPercent <= Scaled(yHi)

InSomeWall(p) ==
    \/ InRectangle(p, 5, 25, 10, 40)
    \/ InRectangle(p, 75, 95, 10, 40)
    \/ InRectangle(p, 20, 80, 5, 25)

InPercentRange(p) ==
    /\ 0 <= p.xPercent /\ p.xPercent <= Scaled(100)
    /\ 0 <= p.yPercent /\ p.yPercent <= Scaled(100)

\* A list of n placed positions
PlacedOfLength(n) == [i \in 1 .. n |-> [xPercent |-> 0, yPercent |-> 0, type |-> "plant"]]

C13_FallbackFormula ==
    /\ pcPlace = "returnedFallback" =>
          /\ position.xPercent = Scaled(20 + ((Len(placedPositions) * 20) % 60))
          /\ isTile =>
                position.yPercent = Scaled(15 + ((Len(placedPositions) * 10) % 25))
          /\ ~isTile =>
                position.yPercent = Scaled(70 + ((Len(placedPositions) * 10) % 20))
          /\ position = FallbackPosition(isTile, PlacedOfLength(Len(placedPositions)))
    /\ \A i \in 1 .. Len(placedPositions) :
          placedVia[i] = "fallback" =>
              /\ placedPositions[i].xPercent = Scaled(20 + (((i - 1) * 20) % 60))
              /\ placedPositions[i].yPercent =
                     IF placedPositions[i].type = "tile"
                     THEN Scaled(15 + (((i - 1) * 10) % 25))
                     ELSE Scaled(70 + (((i - 1) * 10) % 20))

\* C13 witness: the third tile is the fallback of count 2: (60, 35).
C13_Witness ==
    /\ pcPlace = "returnedFallback"
    /\ isTile
    /\ Len(placedPositions) = 2
    /\ position = [xPercent |-> Scaled(60), yPercent |-> Scaled(35)]

\* The positions the loop can return for a category: those of its areas,
\* Math.random() being any number in [0, 1)
InLoopRange(tile, p) ==
    LET areas == IF tile THEN wallAreas ELSE surfaceAreas
    IN  \E i \in 1 .. Len(areas) :
            /\ Scaled(areas[i].xMin) <= p.xPercent
            /\ p.xPercent < Scaled(areas[i].xMax)
            /\ Scaled(areas[i].yMin) <= p.yPercent
            /\ p.yPercent < Scaled(areas[i].yMax)

\* C14 as stated: a result of the fallback can be told from a result of the
\* loop: by something the result carries besides the two coordinates, or by
\* being a position the loop does not return for these arguments (one
\* outside the areas of the category, or one too close to a placed position).
C14_FallbackDistinguishable ==
    pcPlace = "returnedFallback" =>
        \/ DOMAIN position # {"xPercent", "yPercent"}
        \/ ~InLoopRange(isTile, position)
        \/ Conflicts(position, placedPositions)

-----------------------------------------------------------------------------
(* More claims on the App *)

\* C15 as stated: the failure of a run sets one error message, and the error
\* messages of two failed runs differ when one failed at its first item
\* (nothing composited) and the other at a later item (after composites).
C15_FailureTellsHowFar ==
    [][ /\ \A r \in 1 .. Len(runs) :
              FailureOf(r) =>
                  /\ error' # Null
                  /\ error' = Message("Failed to apply products. "
                                          \o ErrorMessage(runs'[r].thrown))
        /\ \A r, q \in 1 .. Len(runs') :
              (/\ runs'[r].pc = "failed"
               /\ runs'[q].pc = "failed"
               /\ runs'[r].item = 1
               /\ runs'[q].item > 1)
                  => ErrorMessage(runs'[r].thrown) # ErrorMessage(runs'[q].thrown)
      ]_vars

\* The number of times a run has started the stage for the item
TimesStarted(run, item, stage) ==
    Cardinality({n \in 1 .. Len(run.log) : run.log[n] = <<item, stage>>})

\* C16: a call starts the generator at most once for an item; when the
\* generator call fails, by a transport failure or by a response without an
\* image part, the call ends without starting any stage again, and the
\* failure handling makes no new call: a new call comes only from the Apply
\* button of step2, which the error card hides.
C16_GeneratorCalledOnce ==
    [][ /\ \A r \in 1 .. Len(runs') :
              \A item \in 1 .. runs'[r].item :
                  TimesStarted(runs'[r], item, "generate") <= 1
        /\ \A r \in 1 .. Len(runs) :
              (FailureOf(r) /\ runs[r].pc = "generate") =>
                  /\ runs'[r].log = runs[r].log
                  /\ TimesStarted(runs'[r], runs[r].item, "generate") = 1
                  /\ TimesStarted(runs'[r], runs[r].item, "crop") = 0
                  /\ Len(runs') = Len(runs)
        /\ \A r \in 1 .. Len(runs) : runs[r].pc = "failed" => runs'[r] = runs[r]
        /\ Len(runs') > Len(runs) => (error = Null /\ currentStep = "step2")
      ]_vars

\* C16 witness: the generator call of a run failed in transport, the run has
\* ended, and a later run was made by the user.
C16_Witness ==
    /\ Len(runs) = 2
    /\ runs[1].pc = "failed"
    /\ runs[1].thrown = Thrown("Internal error encountered.")
    /\ TimesStarted(runs[1], 1, "generate") = 1
    /\ runs[2].pc = "generate"

-----------------------------------------------------------------------------
(* More geometry claims *)
(* The claims compare the doubles the code computes with the numbers they   *)
(* stand for, exactly: a double a >= 0 is the integer ExactAt(a, e) in      *)
(* units of 2^e, for any e <= a.e.                                          *)

ExactAt(a, e) == BigShl(a.m, a.e - e)

Min(a, b) == IF a < b THEN a ELSE b

BigAbsDiff(x, y) == IF BigCmp(x, y) >= 0 THEN BigSub(x, y) ELSE BigSub(y, x)

\* diff * 2^e <= bound * 2^-51
WithinRounding(diff, e, bound) ==
    IF e + 51 >= 0
    THEN BigCmp(BigShl(diff, e + 51), BigFromInt(bound)) <= 0
    ELSE BigCmp(diff, BigShl(BigFromInt(bound), -(e + 51))) <= 0

\* | a * p - b * q |, in units of 2^e
CrossDiffAt(a, p, b, q, e) ==
    BigAbsDiff(BigMul(ExactAt(a, e), BigFromInt(p)),
               BigMul(ExactAt(b, e), BigFromInt(q)))

\* | d - (side + 2 * offset) |, in units of 2^e
CenterDiffAt(d, side, offset, e) ==
    BigAbsDiff(ExactAt(d, e),
               BigAdd(ExactAt(side, e), BigShl(ExactAt(offset, e), 1)))

\* content_width * height = content_height * width, exactly
AspectExact(rect, width, height) ==
    CrossDiffAt(rect.width, height, rect.height, width,
                Min(rect.width.e, rect.height.e)) = << >>

\* The same to the rounding of the two operations that compute the side
AspectWithinRounding(rect, width, height, d) ==
    WithinRounding(CrossDiffAt(rect.width, height, rect.height, width,
                               Min(rect.width.e, rect.height.e)),
                   Min(rect.width.e, rect.height.e),
                   d * Max(width, height))

\* offset = (d - side) / 2, exactly
CenterExact(d, side, offset) ==
    CenterDiffAt(d, side, offset, Min(d.e, Min(side.e, offset.e))) = << >>

\* The same to the rounding of the subtraction
CenterWithinRounding(d, side, offset, dimension) ==
    WithinRounding(CenterDiffAt(d, side, offset, Min(d.e, Min(side.e, offset.e))),
                   Min(d.e, Min(side.e, offset.e)), dimension)

\* The longer side of the content is the target dimension, the other at most
LongerSideFills(rect, width, height, d) ==
    /\ width > height =>
          (rect.width = d /\ DoubleCmp(rect.height, d) <= 0)
    /\ width <= height =>
          (rect.height = d /\ DoubleCmp(rect.width, d) <= 0)

\* C17 as stated: the content rectangle has exactly the source's aspect
\* ratio, its longer side is D and the other at most D, and its offsets are
\* exactly (D - content_width)/2 and (D - content_height)/2.
C17_ContentRectangleExact ==
    pcGeo = "normalized" =>
        /\ AspectExact(drawn, imgWidth, imgHeight)
        /\ LongerSideFills(drawn, imgWidth, imgHeight, DoubleOfInt(targetDimension))
        /\ CenterExact(DoubleOfInt(targetDimension), drawn.width, drawn.x)
        /\ CenterExact(DoubleOfInt(targetDimension), drawn.height, drawn.y)

\* C17 amended: the content rectangle has the source's aspect ratio to the
\* rounding of the double operations that compute it,
\* |content_width * height - content_height * width| <= 2^-51 * D * max(width, height),
\* its longer side is D and the other at most D, and its offsets are the
\* doubles (D - content_width)/2 and (D - content_height)/2, within
\* 2^-51 * D of the exact quotients.
C17_ContentRectangleRounded ==
    pcGeo = "normalized" =>
        /\ AspectWithinRounding(drawn, imgWidth, imgHeight, targetDimension)
        /\ LongerSideFills(drawn, imgWidth, imgHeight, DoubleOfInt(targetDimension))
        /\ drawn.x = DoubleHalf(DoubleSub(DoubleOfInt(targetDimension), drawn.width))
        /\ drawn.y = DoubleHalf(DoubleSub(DoubleOfInt(targetDimension), drawn.height))
        /\ CenterWithinRounding(DoubleOfInt(targetDimension), drawn.width, drawn.x,
                                targetDimension)
        /\ CenterWithinRounding(DoubleOfInt(targetDimension), drawn.height, drawn.y,
                                targetDimension)

\* C17 witness: a 3 x 1 source drawn at a height that is not exactly a third
\* of the target dimension.
C17_Witness ==
    /\ pcGeo = "normalized"
    /\ imgWidth = 3
    /\ imgHeight = 1
    /\ drawn.width = DoubleOfInt(targetDimension)
    /\ ~AspectExact(drawn, imgWidth, imgHeight)

\* C18: a 1600 x 900 scene is drawn into the 1024 square at width 1024,
\* height 576, offset_x 0 and offset_y 224, and the crop called with
\* (1600, 900, 1024) takes that rectangle into a 1024 x 576 image.
C18_LandscapeSceneNumbers ==
    (imgWidth = 1600 /\ imgHeight = 900 /\ targetDimension = 1024) =>
        /\ pcGeo \in {"normalized", "generated", "restored"} =>
              /\ drawn.width = DoubleOfInt(1024)
              /\ drawn.height = DoubleOfInt(576)
              /\ DoubleIsZero(drawn.x)
              /\ drawn.y = DoubleOfInt(224)
        /\ pcGeo = "restored" =>
              /\ originalWidth = 1600
              /\ originalHeight = 900
              /\ cropped = drawn
              /\ cropped.height = DoubleOfInt(576)
              /\ cropped.y = DoubleOfInt(224)
              /\ outWidth = 1024
              /\ outHeight = 576

\* C18 witness: the 1600 x 900 scene has been cropped back to 1024 x 576.
C18_Witness ==
    /\ pcGeo = "restored"
    /\ imgWidth = 1600
    /\ imgHeight = 900
    /\ targetDimension = 1024
    /\ outWidth = 1024
    /\ outHeight = 576
    /\ cropped.y = DoubleOfInt(224)

-----------------------------------------------------------------------------
(* Claims on getPlacementInstructions *)

\* A word as written, in capitals and capitalized
CaseVariants(word) == {word, ToUpperCase(word), Capitalized(word)}

SizeClassVariants ==
    CaseVariants(SizeSmall) \cup CaseVariants(SizeMedium)
    \cup CaseVariants(SizeLarge) \cup CaseVariants(SizeHuge)

\* C19: the lookup always returns a rule that is not empty: the wall rule for
\* a tile whatever the size; for a plant the elevated-surfaces rule for
\* 'small', a rule of its own for 'medium', for 'large' and for 'huge', in
\* any case of the letters, and the default rule for every other size.
C19_PlacementRuleLookup ==
    /\ Cardinality({TileRule, SmallRule, MediumRule, LargeRule, HugeRule,
                    DefaultRule, ""}) = 7
    /\ pcRule = "returned" =>
          /\ instructions # ""
          /\ productType = "tile" => instructions = TileRule
          /\ productType = "plant" =>
                /\ productSize \in CaseVariants(SizeSmall) => instructions = SmallRule
                /\ productSize \in CaseVariants(SizeMedium) => instructions = MediumRule
                /\ productSize \in CaseVariants(SizeLarge) => instructions = LargeRule
                /\ productSize \in CaseVariants(SizeHuge) => instructions = HugeRule
                /\ productSize \notin SizeClassVariants => instructions = DefaultRule

\* C19 witness: the rule for a plant of size 'Small' is the rule of 'small'.
C19_Witness ==
    /\ pcRule = "returned"
    /\ productType = "plant"
    /\ productSize = Capitalized(SizeSmall)
    /\ productSize # SizeSmall
    /\ instructions = SmallRule

\* C20 as stated: every plant of the catalog has a size among small, medium,
\* large and huge, and the rule built for a selected plant is the rule of its
\* size class, never the default rule.
C20_CatalogPlantsGetSizeRule ==
    /\ \A plant \in PLANT_ASSETS :
          plant.size \in {SizeSmall, SizeMedium, SizeLarge, SizeHuge}
    /\ (pcRule = "returned" /\ ruleProduct \in ALL_PRODUCTS
          /\ ruleProduct.type = "plant") =>
          /\ instructions \in {SmallRule, MediumRule, LargeRule, HugeRule}
          /\ instructions # DefaultRule

-----------------------------------------------------------------------------
(* Claims on the dimensions threaded through generateCompositeImage *)

\* C21: the crop is computed from the width and height of the scene image
\* read before anything was resized, whatever the product image's
\* dimensions are: not from the product's and not from the square's.
C21_CropUsesSceneDimensions ==
    /\ pcGeo \in {"measured", "productResized", "normalized", "generated",
                  "restored"} =>
          (originalWidth = imgWidth /\ originalHeight = imgHeight)
    /\ pcGeo = "restored" =>
          /\ cropped = CropRect(imgWidth, imgHeight, targetDimension)
          /\ productDrawn =
                 ResizeRect(productWidth, productHeight, targetDimension)
          /\ CropRect(productWidth, productHeight, targetDimension)
                 # CropRect(imgWidth, imgHeight, targetDimension)
                => cropped # CropRect(productWidth, productHeight, targetDimension)
          /\ imgWidth # imgHeight =>
                cropped # CropRect(targetDimension, targetDimension, targetDimension)

\* C21 witness: a landscape scene composited with a portrait product has
\* been cropped to the scene's shape.
C21_Witness ==
    /\ pcGeo = "restored"
    /\ imgWidth > imgHeight
    /\ productWidth < productHeight
    /\ outWidth > outHeight
    /\ cropped # CropRect(productWidth, productHeight, targetDimension)

-----------------------------------------------------------------------------
(* Claims on the list of placed positions *)

\* A step of the placement of one item
PlacedPositionsStep ==
    /\ placedPositions' # placedPositions =>
          /\ pcPlace \in {"returnedLoop", "returnedFallback"}
          /\ placedPositions' = Append(placedPositions,
                 [xPercent |-> position.xPercent,
                  yPercent |-> position.yPercent,
                  type |-> TypeOf(isTile)])
    /\ (pcPlace = "loop" /\ pcPlace' = "returnedLoop") =>
          /\ placedPositions' = placedPositions
          /\ \A i \in 1 .. Len(placedPositions) :
                SqDistance(position', placedPositions[i]) >= MinDistanceSq
    /\ (pcPlace = "loop" /\ pcPlace' = "loop" /\ attempt' = attempt + 1) =>
          /\ placedPositions' = placedPositions
          /\ placedPositions # << >>
    /\ (pcPlace = "loop" /\ pcPlace' = "returnedFallback") =>
          /\ placedPositions' = placedPositions
          /\ position' = FallbackPosition(isTile, placedPositions)

\* C22: placedPositions starts empty and gets one entry per decided item,
\* appended in processing order with the item's category; an item's position
\* is computed against all the entries of the items before it, whatever
\* their category, and is pushed only after it has been computed.
C22_OneEntryPerDecidedItem ==
    /\ (placedVia = << >> => placedPositions = << >>)
    /\ [](Len(placedPositions) = Len(placedVia))
    /\ [][PlacedPositionsStep]_vars

\* C22 witness: a plant's candidate was rejected when only a tile had been
\* placed, and a plant was then placed next to the tile's entry.
C22_Witness ==
    /\ Len(placedPositions) = 3
    /\ placedPositions[1].type = "tile"
    /\ placedPositions[2].type = "plant"
    /\ placedPositions[3].type = "tile"
    /\ placedVia[2] = "loop"

-----------------------------------------------------------------------------
(* Claims on the loading flag *)

\* Run r is started by this step
RunStarts(r) == Len(runs) = r - 1 /\ Len(runs') = r

\* Run r ends in this step
RunEnds(r) ==
    /\ r <= Len(runs)
    /\ InFlight(runs[r])
    /\ ~InFlight(runs'[r])

\* C23: a run of handleApplyProducts sets isLoading when it starts; when
\* every awaited call settles the run ends, whatever the stage it fails at,
\* and the step that ends it leaves isLoading false.
C23_LoadingEventuallyCleared ==
    /\ [][\A r \in 1 .. MaxRuns :
             /\ RunStarts(r) => isLoading'
             /\ RunEnds(r) => ~isLoading']_vars
    /\ \A r \in 1 .. MaxRuns :
          (r <= Len(runs) /\ InFlight(runs[r])) ~>
              (r <= Len(runs) /\ ~InFlight(runs[r]))

\* C23 witness: a run has failed and another has succeeded, and isLoading is
\* false.
C23_Witness ==
    /\ Len(runs) = 2
    /\ runs[1].pc = "failed"
    /\ runs[2].pc = "done"
    /\ ~isLoading

-----------------------------------------------------------------------------
(* Claims on the zones of generateSmartPosition *)

InSomeSurface(p) ==
    \/ InRectangle(p, 15, 85, 60, 90)
    \/ InRectangle(p, 20, 80, 40, 70)

\* C24 as stated: every position generateSmartPosition returns, from the loop
\* or from the fallback, lies in a wall rectangle when the item is a tile and
\* in the floor zone or the table/shelf zone when it is a plant.
C24_PositionInsideZone ==
    pcPlace \in {"returnedLoop", "returnedFallback"} =>
        IF isTile THEN InSomeWall(position) ELSE InSomeSurface(position)

-----------------------------------------------------------------------------
(* Claims on the checks of handleApplyProducts *)

\* C25: handleApplyProducts called without a scene image, or without a
\* selected product, sets the error message of the missing thing and returns:
\* isLoading is not set, no run is started (nothing is fetched, the generator
\* is not called), and the scene, the selection and the step are unchanged.
C25_ChecksReturnEarly ==
    [][(Single_handleApplyProducts
           /\ (sceneImage = Null \/ selectedProduct = Null)) =>
          /\ error' = IF sceneImage = Null
                      THEN Message("Please upload a scene image first.")
                      ELSE Message("Please select a product first.")
          /\ ~isLoading'
          /\ runs' = runs
          /\ sceneImage' = sceneImage
          /\ selectedProduct' = selectedProduct
          /\ currentStep' = currentStep]_vars

\* C25 witness: Apply was clicked with a scene and no selected product after
\* an earlier run had ended.
C25_Witness ==
    /\ error = Message("Please select a product first.")
    /\ sceneImage # Null
    /\ selectedProduct = Null
    /\ currentStep = "step2"
    /\ ~isLoading
    /\ Len(runs) = 1

-----------------------------------------------------------------------------
(* Claims on what a failed run leaves behind *)

\* The failure of a run leaves the step and the selection alone and sets the
\* error to the prefix followed by the cause
FailureKeepsStepAndSelection(prefix) ==
    \A r \in 1 .. Len(runs) :
        FailureOf(r) =>
            /\ currentStep' = currentStep
            /\ selectedProduct' = selectedProduct
            /\ selectedProducts' = selectedProducts
            /\ runs'[r].thrown \in Failures(runs[r].pc,
                                            runs[r].products[runs[r].item])
            /\ error' = Message(prefix \o ErrorMessage(runs'[r].thrown))

\* C26 as stated: when a run of handleApplyProducts fails, the step and the
\* selection are left as they were and the error message is 'Failed to apply
\* products. ' followed by the cause of the failed stage.
C26_FailureMessageProducts ==
    [][FailureKeepsStepAndSelection("Failed to apply products. ")]_vars

\* C26 amended: when a run of the single-item handleApplyProducts fails, the
\* step and the selection are left as they were and the error message is
\* 'Failed to apply product. ' followed by the cause of the failed stage.
C26_FailureMessageProduct ==
    [][FailureKeepsStepAndSelection("Failed to apply product. ")]_vars

\* C26 witness: a run has failed for want of an image; the wizard is on step2
\* with its product still selected and shows the message of the failure.
C26_Witness ==
    /\ \E r \in 1 .. Len(runs) :
          runs[r].pc = "failed" /\ runs[r].thrown = Thrown(NoImageMessage)
    /\ currentStep = "step2"
    /\ selectedProduct # Null
    /\ error = Message("Failed to apply product. " \o NoImageMessage)

-----------------------------------------------------------------------------
(* Claims on the end of a successful run *)

\* Run r composites its last product in this step
SuccessOf(r) == InFlight(runs[r]) /\ runs'[r].pc = "done"

\* C27: when a multi-item run has composited every selected product, the
\* scene image is the final image of its last product, selectedProducts is
\* empty, the step is step3, error is null and isLoading is false.
C27_SuccessEndState ==
    [][\A r \in 1 .. Len(runs) :
          SuccessOf(r) =>
              /\ runs[r].item = Len(runs[r].products)
              /\ sceneImage' = Composite(runs[r].scene, r, Len(runs[r].products))
              /\ selectedProducts' = << >>
              /\ currentStep' = "step3"
              /\ error' = Null
              /\ ~isLoading']_vars

-----------------------------------------------------------------------------
(* Claims on the scene analysis *)

\* C28 as stated: a failure of analyzeSceneForPlantPlacement never ends the
\* run, whether the plant was selected by the user or is selected by the
\* App: the run goes on to fetch a plant, and that plant and its position are
\* the default placement when the App selects.
C28_AnalysisFailureNeverAborts ==
    [][\A r \in 1 .. Len(runs) :
          runs[r].pc = "analyze" =>
              /\ runs'[r].pc # "failed"
              /\ (runs'[r].pc = "fetch"
                    /\ runs'[r].reasoning = DefaultReasoning) =>
                    /\ runs'[r].plant = DefaultPlant
                    /\ runs'[r].position = DefaultPosition]_vars

-----------------------------------------------------------------------------
(* Claims on the steps of the wizard *)

\* C29 as stated: in every reachable state, the initial one included, a
\* scene image is present on step2 and step3, and a final result image is
\* present on step3.
C29_StepsHaveTheirImages ==
    /\ currentStep \in {"step2", "step3"} => sceneImage # Null
    /\ currentStep = "step3" => finalResult # Null

-----------------------------------------------------------------------------
(* Claims on the dimensions of a scene composited several times *)

=============================================================================
